---- MODULE Spec2Model ----
(***************************************************************************)
(* Subscription aggregator service (itskoshkin/em-tt): the date-month      *)
(* codec, the request validation, the domain service and the record store, *)
(* modelled as a state machine.                                            *)
(*                                                                         *)
(* Text is a sequence of one-character strings, so that trimming and       *)
(* parsing work on characters as the Go code does.  A time.Time that went  *)
(* through String2Date is the first day of a month at midnight UTC and is  *)
(* kept as [year, month].  A wall-clock instant is a natural number.       *)
(***************************************************************************)
EXTENDS Integers, Sequences, FiniteSets, TLC

\* ------------------------------------------------------------------------
\* Bounds of the model
\* ------------------------------------------------------------------------

\* ids uuid.New() can hand out during one run (records ever created)
MaxSubs == 1
\* wall-clock instants 0..MaxTime
MaxTime == 1
\* calendar months a request can name: FirstMonth .. FirstMonth + MaxMonth
MaxMonth == 1
\* largest price a request carries
MaxPrice == 2
\* calendar months of the records and windows of the cost function's inputs
MaxCostMonth == 3
\* records created before a total-cost query
MaxTotalSubs == 2

\* requests in flight when the server is asked to stop
MaxInFlight == 2

\* ------------------------------------------------------------------------
\* Text
\* ------------------------------------------------------------------------

\* A Go pointer (or a nullable column): Nil, or Ptr(v)
Nil == <<>>

Ptr(v) == <<v>>

Deref(p) == p[1]

DigitChars == <<"0", "1", "2", "3", "4", "5", "6", "7", "8", "9">>

isDigit(c) == \E i \in 1..10 : DigitChars[i] = c

DigitVal(c) == (CHOOSE i \in 1..10 : DigitChars[i] = c) - 1

IsSpace(c) == c \in {" ", "\t", "\n", "\r"}

RECURSIVE TrimLeft(_)
TrimLeft(s) ==
    IF s # <<>> /\ IsSpace(Head(s)) THEN TrimLeft(Tail(s)) ELSE s

RECURSIVE TrimRight(_)
TrimRight(s) ==
    IF s # <<>> /\ IsSpace(s[Len(s)]) THEN TrimRight(SubSeq(s, 1, Len(s) - 1)) ELSE s

\* strings.TrimSpace
TrimSpace(s) == TrimRight(TrimLeft(s))

\* ------------------------------------------------------------------------
\* Month-year values (time.Time normalised by String2Date)
\* ------------------------------------------------------------------------

Date(y, m) == [year |-> y, month |-> m]

\* time.Time.Before / After on normalised values
Before(a, b) == a.year < b.year \/ (a.year = b.year /\ a.month < b.month)

After(a, b) == Before(b, a)

\* time.Parse that does not range-check the month
timeParse_AnyMonth(s) ==
    IF /\ Len(s) = 7
       /\ isDigit(s[1]) /\ isDigit(s[2])
       /\ s[3] = "-"
       /\ \A i \in 4..7 : isDigit(s[i])
    THEN Ptr(Date(DigitVal(s[4]) * 1000 + DigitVal(s[5]) * 100
                    + DigitVal(s[6]) * 10 + DigitVal(s[7]),
                  DigitVal(s[1]) * 10 + DigitVal(s[2])))
    ELSE Nil

\* time.Parse(Layout, s) with Layout = "01-2006": two digits of month, a
\* hyphen, four digits of year, nothing after them, month in 1..12.
timeParse(s) ==
    IF /\ Len(s) = 7
       /\ isDigit(s[1]) /\ isDigit(s[2])
       /\ s[3] = "-"
       /\ \A i \in 4..7 : isDigit(s[i])
       /\ DigitVal(s[1]) * 10 + DigitVal(s[2]) \in 1..12
    THEN Ptr(Date(DigitVal(s[4]) * 1000 + DigitVal(s[5]) * 100
                    + DigitVal(s[6]) * 10 + DigitVal(s[7]),
                  DigitVal(s[1]) * 10 + DigitVal(s[2])))
    ELSE Nil

\* The zero time.Time{} returned beside an error
ZeroTime == Date(1, 1)

\* dates.String2Date: (time.Time, error); err = "" stands for nil
String2Date(s) ==
    LET t == TrimSpace(s) IN
    IF t = <<>> THEN [t |-> ZeroTime, err |-> "empty date"]
    ELSE LET p == timeParse(t) IN
         IF p = Nil THEN [t |-> ZeroTime, err |-> "invalid date format"]
         ELSE [t |-> Date(Deref(p).year, Deref(p).month), err |-> ""]

\* Format with the layout "1-2006": the month is not zero-padded
Format_UnpaddedMonth(t) ==
    (IF t.month >= 10 THEN << DigitChars[(t.month \div 10) + 1] >> ELSE << >>)
    \o << DigitChars[(t.month % 10) + 1], "-",
          DigitChars[((t.year \div 1000) % 10) + 1], DigitChars[((t.year \div 100) % 10) + 1],
          DigitChars[((t.year \div 10) % 10) + 1], DigitChars[(t.year % 10) + 1] >>

\* time.Time.Format(Layout): zero-padded month, hyphen, four-digit year
Format(t) ==
    << DigitChars[(t.month \div 10) + 1], DigitChars[(t.month % 10) + 1], "-",
       DigitChars[((t.year \div 1000) % 10) + 1], DigitChars[((t.year \div 100) % 10) + 1],
       DigitChars[((t.year \div 10) % 10) + 1], DigitChars[(t.year % 10) + 1] >>

\* ------------------------------------------------------------------------
\* State
\* ------------------------------------------------------------------------

VARIABLES
    rows,   \* the subscriptions table: a set of rows, soft-deleted ones included
    now,    \* the wall clock (time.Now())
    proc,   \* per request goroutine: where its handler stands and its locals
    last,   \* the call that completed last: its name and what it returned
    arg     \* the one input a specification fixes at its start: the arguments of
            \* the cost function (SpecCost), the request of the one Create
            \* (SpecCreate, SpecValidate) or Update (SpecUpdate)

vars == <<rows, now, proc, last, arg>>

NoCall == [op |-> "none"]

\* ------------------------------------------------------------------------
\* The cost of one record over a window
\* ------------------------------------------------------------------------

\* the variant of part_002, which compares the record's start with the
\* window's END when it picks the effective start
calculateSubscriptionCostPart002(sub, startDate, endDate) ==
    LET start == IF After(sub.StartDate, endDate) THEN sub.StartDate ELSE startDate
        end   == IF sub.EndDate # Nil /\ Before(Deref(sub.EndDate), endDate)
                 THEN Deref(sub.EndDate) ELSE endDate
        months == (end.year - start.year) * 12 + (end.month - start.month) + 1
    IN  IF Before(end, start) THEN 0
        ELSE IF months < 0 THEN 0
        ELSE months * sub.Price

\* calculateSubscriptionCost that bills nothing for a record that starts
\* after the window's first month, instead of billing from the record's start
calculateSubscriptionCost_DropsLateStart(sub, startDate, endDate) ==
    LET end   == IF sub.EndDate # Nil /\ Before(Deref(sub.EndDate), endDate)
                 THEN Deref(sub.EndDate) ELSE endDate
        months == (end.year - startDate.year) * 12 + (end.month - startDate.month) + 1
    IN  IF After(sub.StartDate, startDate) THEN 0
        ELSE IF Before(end, startDate) THEN 0
        ELSE months * sub.Price

calculateSubscriptionCost(sub, startDate, endDate) ==
    LET start == IF After(sub.StartDate, startDate) THEN sub.StartDate ELSE startDate
        end   == IF sub.EndDate # Nil /\ Before(Deref(sub.EndDate), endDate)
                 THEN Deref(sub.EndDate) ELSE endDate
        months == (end.year - start.year) * 12 + (end.month - start.month) + 1
    IN  IF Before(end, start) THEN 0
        ELSE IF months < 0 THEN 0
        ELSE months * sub.Price

\* ------------------------------------------------------------------------
\* SpecCost: calculateSubscriptionCost on bounded inputs
\* ------------------------------------------------------------------------

\* the first calendar month of the model; the months after it cross a year end
BaseMonth == Date(2023, 11)

MonthAt(i) ==
    LET k == BaseMonth.year * 12 + (BaseMonth.month - 1) + i
    IN  Date(k \div 12, (k % 12) + 1)

CostMonths == {MonthAt(i) : i \in 0..MaxCostMonth}

\* records as the store holds them: price > 0, end_date absent or not before start_date
CostSubs ==
    {[Price |-> p, StartDate |-> s, EndDate |-> e] :
        p \in 1..MaxPrice, s \in CostMonths, e \in {Nil} \cup {Ptr(m) : m \in CostMonths}}

CostArgs ==
    {a \in [sub : CostSubs, startDate : CostMonths, endDate : CostMonths] :
        /\ ~Before(a.endDate, a.startDate)
        /\ a.sub.EndDate # Nil => ~Before(Deref(a.sub.EndDate), a.sub.StartDate)}

Idle == [pc |-> "idle"]

Procs == {1, 2}

InitCost ==
    /\ rows = {}
    /\ now = 0
    /\ proc = [p \in Procs |-> Idle]
    /\ last = NoCall
    /\ arg \in CostArgs

CalcCost ==
    /\ last = NoCall
    /\ last' = [op |-> "calculateSubscriptionCost", src |-> "service",
                result |-> calculateSubscriptionCost(arg.sub, arg.startDate, arg.endDate)]
    /\ UNCHANGED <<rows, now, proc, arg>>

CalcCostPart002 ==
    /\ last = NoCall
    /\ last' = [op |-> "calculateSubscriptionCost", src |-> "part_002",
                result |-> calculateSubscriptionCostPart002(arg.sub, arg.startDate, arg.endDate)]
    /\ UNCHANGED <<rows, now, proc, arg>>

NextCost == CalcCost \/ CalcCostPart002

SpecCost == InitCost /\ [][NextCost]_vars

\* --- C1 -----------------------------------------------------------------

MonthIndex(t) == t.year * 12 + t.month

\* the contract's contribution of a record to a window: price times the number
\* of calendar months in the intersection of [start_date, end_date or window
\* end] with the window, 0 when the intersection is empty
Contribution(sub, startDate, endDate) ==
    LET S == IF MonthIndex(sub.StartDate) >= MonthIndex(startDate)
             THEN MonthIndex(sub.StartDate) ELSE MonthIndex(startDate)
        subEnd == IF sub.EndDate = Nil THEN MonthIndex(endDate)
                  ELSE MonthIndex(Deref(sub.EndDate))
        E == IF subEnd <= MonthIndex(endDate) THEN subEnd ELSE MonthIndex(endDate)
    IN  IF E < S THEN 0 ELSE sub.Price * Cardinality(S..E)

\* C1: for every record and window, calculateSubscriptionCost returns
\* price * (months from max(start_date, window start) to min(end_date or
\* window end, window end), inclusive), and 0 when that interval is empty; the
\* window's months before the record's start_date are not billed.  Stated of
\* every calculateSubscriptionCost of the repository.
C1_CostIsContribution ==
    last.op = "calculateSubscriptionCost" =>
        last.result = Contribution(arg.sub, arg.startDate, arg.endDate)

\* C1 restricted to the service's current calculateSubscriptionCost
C1_ServiceCostIsContribution ==
    (last.op = "calculateSubscriptionCost" /\ last.src = "service") =>
        last.result = Contribution(arg.sub, arg.startDate, arg.endDate)

\* a record that starts inside the window, after the window's first month,
\* has been costed
C1_Witness ==
    /\ last.op = "calculateSubscriptionCost"
    /\ Before(arg.startDate, arg.sub.StartDate)
    /\ ~Before(arg.endDate, arg.sub.StartDate)
    /\ last.result > 0

\* ------------------------------------------------------------------------
\* Identifiers (github.com/google/uuid)
\* ------------------------------------------------------------------------

HexLower == <<"0", "1", "2", "3", "4", "5", "6", "7", "8", "9", "a", "b", "c", "d", "e", "f">>

HexUpper == <<"0", "1", "2", "3", "4", "5", "6", "7", "8", "9", "A", "B", "C", "D", "E", "F">>

isHex(c) == \E i \in 1..16 : HexLower[i] = c \/ HexUpper[i] = c

lowerHex(c) == HexLower[CHOOSE i \in 1..16 : HexLower[i] = c \/ HexUpper[i] = c]

UrnPrefix == <<"u", "r", "n", ":", "u", "u", "i", "d", ":">>

UrnPrefixUpper == <<"U", "R", "N", ":", "U", "U", "I", "D", ":">>

HyphenAt == {9, 14, 19, 24}

\* the 36 characters xxxxxxxx-xxxx-xxxx-xxxx-xxxxxxxxxxxx at the head of s
uuidBody(s) ==
    IF /\ \A i \in HyphenAt : s[i] = "-"
       /\ \A i \in (1..36) \ HyphenAt : isHex(s[i])
    THEN Ptr([i \in 1..36 |-> IF i \in HyphenAt THEN "-" ELSE lowerHex(s[i])])
    ELSE Nil

\* uuid.Parse: the canonical form, urn:uuid:<canonical>, the canonical form
\* between two more characters, or 32 hexadecimal digits; Nil is the error.
\* The value is kept as its canonical lower-case text (UUID.String()).
uuidParseText(s) ==
    CASE Len(s) = 36 -> uuidBody(s)
      [] Len(s) = 45 ->
            IF \A i \in 1..9 : s[i] = UrnPrefix[i] \/ s[i] = UrnPrefixUpper[i]
            THEN uuidBody(SubSeq(s, 10, 45)) ELSE Nil
      [] Len(s) = 38 -> uuidBody(SubSeq(s, 2, 38))
      [] Len(s) = 32 ->
            IF \A i \in 1..32 : isHex(s[i])
            THEN uuidBody(SubSeq(s, 1, 8) \o <<"-">> \o SubSeq(s, 9, 12) \o <<"-">>
                          \o SubSeq(s, 13, 16) \o <<"-">> \o SubSeq(s, 17, 20)
                          \o <<"-">> \o SubSeq(s, 21, 32))
            ELSE Nil
      [] OTHER -> Nil

\* the identifiers uuid.New() draws from: version 4, told apart by the last digit
NewUUID(i) ==
    <<"0", "0", "0", "0", "0", "0", "0", "0", "-", "0", "0", "0", "0", "-", "4", "0", "0", "0",
      "-", "8", "0", "0", "0", "-", "0", "0", "0", "0", "0", "0", "0", "0", "0", "0", "0">>
    \o <<DigitChars[i + 1]>>

IdPool == {NewUUID(i) : i \in 1..MaxSubs}

\* the ids of the records a total-cost query runs over
TotalIdPool == {NewUUID(i) : i \in 1..MaxTotalSubs}

\* the id of a record that is in the store before the request under check
SeedID == NewUUID(0)

User1 ==
    <<"5", "5", "0", "e", "8", "4", "0", "0", "-", "e", "2", "9", "b", "-", "4", "1", "d", "4",
      "-", "a", "7", "1", "6", "-", "4", "4", "6", "6", "5", "5", "4", "4", "0", "0", "0", "0">>

User2 ==
    <<"6", "6", "0", "e", "8", "4", "0", "0", "-", "e", "2", "9", "b", "-", "4", "1", "d", "4",
      "-", "a", "7", "1", "6", "-", "4", "4", "6", "6", "5", "5", "4", "4", "0", "0", "0", "0">>

NotAUUID == <<"n", "o", "t", "-", "a", "-", "u", "u", "i", "d">>

\* every text the model hands to uuid.Parse
UuidTexts == IdPool \cup TotalIdPool \cup {SeedID, User1, User2, NotAUUID, <<>>}

\* uuid.Parse, tabulated over UuidTexts
uuidParseTable == [s \in UuidTexts |-> uuidParseText(s)]

uuidParse(s) == uuidParseTable[s]

\* ------------------------------------------------------------------------
\* Request payloads (internal/api/models)
\* ------------------------------------------------------------------------

\* CreateSubscriptionRequest.Validate: the error text, "" for nil
CreateSubscriptionRequest_Validate(req) ==
    IF req.ServiceName = <<>> THEN "service name is required"
    ELSE IF req.Price <= 0 THEN "price must be above zero"
    ELSE IF req.UserID = <<>> THEN "user ID is required"
    ELSE IF uuidParse(req.UserID) = Nil THEN "user ID must be a valid UUID"
    ELSE IF req.StartDate = <<>> THEN "start date is required"
    ELSE ""

\* CreateSubscriptionRequest.ParseDates without the comparison of the two dates
CreateSubscriptionRequest_ParseDates_NoOrderCheck(req) ==
    LET start == String2Date(req.StartDate) IN
    IF start.err # "" THEN [start |-> ZeroTime, end |-> Nil, err |-> start.err]
    ELSE IF req.EndDate = Nil THEN [start |-> start.t, end |-> Nil, err |-> ""]
    ELSE LET end == String2Date(Deref(req.EndDate)) IN
         IF end.err # "" THEN [start |-> ZeroTime, end |-> Nil, err |-> end.err]
         ELSE [start |-> start.t, end |-> Ptr(end.t), err |-> ""]

\* CreateSubscriptionRequest.ParseDates: (start, end, err)
CreateSubscriptionRequest_ParseDates(req) ==
    LET start == String2Date(req.StartDate) IN
    IF start.err # "" THEN [start |-> ZeroTime, end |-> Nil, err |-> start.err]
    ELSE IF req.EndDate = Nil THEN [start |-> start.t, end |-> Nil, err |-> ""]
    ELSE LET end == String2Date(Deref(req.EndDate)) IN
         IF end.err # "" THEN [start |-> ZeroTime, end |-> Nil, err |-> end.err]
         ELSE IF Before(end.t, start.t)
              THEN [start |-> ZeroTime, end |-> Nil,
                    err |-> "subscription end date cannot precede start date"]
         ELSE [start |-> start.t, end |-> Ptr(end.t), err |-> ""]

\* UpdateSubscriptionRequest.Validate: the error text, "" for nil
UpdateSubscriptionRequest_Validate(req) ==
    IF req.ServiceName # Nil /\ TrimSpace(Deref(req.ServiceName)) = <<>>
        THEN "service name is required"
    ELSE IF req.Price # Nil /\ Deref(req.Price) <= 0 THEN "price must be above zero"
    ELSE IF req.UserID # Nil /\ uuidParse(Deref(req.UserID)) = Nil
        THEN "user ID must be a valid UUID"
    ELSE IF req.StartDate # Nil /\ String2Date(Deref(req.StartDate)).err # ""
        THEN "invalid start date format"
    ELSE IF /\ req.EndDate # Nil
            /\ TrimSpace(Deref(req.EndDate)) # <<>>
            /\ String2Date(Deref(req.EndDate)).err # ""
        THEN "invalid end date format"
    ELSE ""

\* UpdateSubscriptionRequest.ParseDates that takes an empty end_date for an
\* absent one: clearEnd is never set
UpdateSubscriptionRequest_ParseDates_EmptyIsAbsent(req) ==
    LET parsedStart == String2Date(Deref(req.StartDate))
        failed(e) == [start |-> Nil, end |-> Nil, clearEnd |-> FALSE, err |-> e]
    IN
    IF req.StartDate # Nil /\ parsedStart.err # "" THEN failed(parsedStart.err)
    ELSE
      LET start == IF req.StartDate # Nil THEN Ptr(parsedStart.t) ELSE Nil IN
      IF req.EndDate = Nil \/ TrimSpace(Deref(req.EndDate)) = <<>>
          THEN [start |-> start, end |-> Nil, clearEnd |-> FALSE, err |-> ""]
      ELSE LET parsed == String2Date(Deref(req.EndDate)) IN
           IF parsed.err # "" THEN failed(parsed.err)
           ELSE IF start # Nil /\ Before(parsed.t, Deref(start))
               THEN failed("subscription end date cannot precede start date")
           ELSE [start |-> start, end |-> Ptr(parsed.t), clearEnd |-> FALSE, err |-> ""]

\* UpdateSubscriptionRequest.ParseDates: (start, end, clearEnd, err)
UpdateSubscriptionRequest_ParseDates(req) ==
    LET parsedStart == String2Date(Deref(req.StartDate))
        failed(e) == [start |-> Nil, end |-> Nil, clearEnd |-> FALSE, err |-> e]
    IN
    IF req.StartDate # Nil /\ parsedStart.err # "" THEN failed(parsedStart.err)
    ELSE
      LET start == IF req.StartDate # Nil THEN Ptr(parsedStart.t) ELSE Nil IN
      IF req.EndDate = Nil
          THEN [start |-> start, end |-> Nil, clearEnd |-> FALSE, err |-> ""]
      ELSE IF TrimSpace(Deref(req.EndDate)) = <<>>
          THEN [start |-> start, end |-> Nil, clearEnd |-> TRUE, err |-> ""]
      ELSE LET parsed == String2Date(Deref(req.EndDate)) IN
           IF parsed.err # "" THEN failed(parsed.err)
           ELSE IF start # Nil /\ Before(parsed.t, Deref(start))
               THEN failed("subscription end date cannot precede start date")
           ELSE [start |-> start, end |-> Ptr(parsed.t), clearEnd |-> FALSE, err |-> ""]

\* ------------------------------------------------------------------------
\* The record store (storage.SubscriptionStorageImpl on gorm)
\* ------------------------------------------------------------------------

\* gorm adds "deleted_at IS NULL" to every query on a model with DeletedAt
Live(table) == {r \in table : r.DeletedAt = Nil}

\* GetSubscriptionByID that reads soft-deleted rows too
Storage_GetSubscriptionByID_Unscoped(table, id) ==
    IF \E r \in table : r.ID = id
    THEN Ptr(CHOOSE r \in table : r.ID = id)
    ELSE Nil

\* GetSubscriptionByID: Ptr(row), or Nil for ErrNotFound
Storage_GetSubscriptionByID(table, id) ==
    IF \E r \in Live(table) : r.ID = id
    THEN Ptr(CHOOSE r \in Live(table) : r.ID = id)
    ELSE Nil

\* CreateSubscription with an INSERT that overwrites the row of the same id
Storage_CreateSubscription_Overwrites(table, sub) ==
    [table |-> {r \in table : r.ID # sub.ID} \cup {sub}, ok |-> TRUE]

\* CreateSubscription: INSERT; id is the table's PRIMARY KEY, so the INSERT of
\* an id some row has, soft-deleted or not, fails
Storage_CreateSubscription(table, sub) ==
    IF \E r \in table : r.ID = sub.ID
    THEN [table |-> table, ok |-> FALSE]
    ELSE [table |-> table \cup {sub}, ok |-> TRUE]

\* UpdateSubscriptionByID without Select: gorm's Updates then skips the zero
\* values of the struct, so a nil end_date is not written
Storage_UpdateSubscriptionByID_SkipsZeroValues(table, sub, t) ==
    LET hit == {r \in Live(table) : r.ID = sub.ID}
        upd(r) == [r EXCEPT !.ServiceName = sub.ServiceName,
                            !.Price = sub.Price,
                            !.UserID = sub.UserID,
                            !.StartDate = sub.StartDate,
                            !.EndDate = IF sub.EndDate # Nil THEN sub.EndDate ELSE @,
                            !.UpdatedAt = t]
    IN  [table |-> (table \ hit) \cup {upd(r) : r \in hit},
         rowsAffected |-> Cardinality(hit)]

\* UpdateSubscriptionByID whose UPDATE is not scoped to "deleted_at IS NULL"
Storage_UpdateSubscriptionByID_Unscoped(table, sub, t) ==
    LET hit == {r \in table : r.ID = sub.ID}
        upd(r) == [r EXCEPT !.ServiceName = sub.ServiceName,
                            !.Price = sub.Price,
                            !.UserID = sub.UserID,
                            !.StartDate = sub.StartDate,
                            !.EndDate = sub.EndDate,
                            !.UpdatedAt = t]
    IN  [table |-> (table \ hit) \cup {upd(r) : r \in hit},
         rowsAffected |-> Cardinality(hit)]

\* UpdateSubscriptionByID whose UPDATE leaves the updated_at column out
Storage_UpdateSubscriptionByID_KeepsUpdatedAt(table, sub, t) ==
    LET hit == {r \in Live(table) : r.ID = sub.ID}
        upd(r) == [r EXCEPT !.ServiceName = sub.ServiceName,
                            !.Price = sub.Price,
                            !.UserID = sub.UserID,
                            !.StartDate = sub.StartDate,
                            !.EndDate = sub.EndDate]
    IN  [table |-> (table \ hit) \cup {upd(r) : r \in hit},
         rowsAffected |-> Cardinality(hit)]

\* UpdateSubscriptionByID: UPDATE of the selected columns of the live row with
\* sub's id at instant t; rowsAffected = 0 is ErrNotFound
Storage_UpdateSubscriptionByID(table, sub, t) ==
    LET hit == {r \in Live(table) : r.ID = sub.ID}
        upd(r) == [r EXCEPT !.ServiceName = sub.ServiceName,
                            !.Price = sub.Price,
                            !.UserID = sub.UserID,
                            !.StartDate = sub.StartDate,
                            !.EndDate = sub.EndDate,
                            !.UpdatedAt = t]
    IN  [table |-> (table \ hit) \cup {upd(r) : r \in hit},
         rowsAffected |-> Cardinality(hit)]

\* DeleteSubscriptionByID whose UPDATE is not scoped to "deleted_at IS NULL"
Storage_DeleteSubscriptionByID_Unscoped(table, id, t) ==
    LET hit == {r \in table : r.ID = id}
    IN  [table |-> (table \ hit) \cup {[r EXCEPT !.DeletedAt = Ptr(t)] : r \in hit},
         rowsAffected |-> Cardinality(hit)]

\* DeleteSubscriptionByID: soft delete, UPDATE SET deleted_at = t of the live row
Storage_DeleteSubscriptionByID(table, id, t) ==
    LET hit == {r \in Live(table) : r.ID = id}
    IN  [table |-> (table \ hit) \cup {[r EXCEPT !.DeletedAt = Ptr(t)] : r \in hit},
         rowsAffected |-> Cardinality(hit)]

\* the order of two uuid column values: byte by byte, which on the canonical
\* text is character by character
uuidLess(a, b) ==
    \E i \in 1..36 :
        /\ \A j \in 1..(i - 1) : a[j] = b[j]
        /\ a[i] # b[i]
        /\ (CHOOSE k \in 1..16 : HexLower[k] = a[i]) < (CHOOSE k \in 1..16 : HexLower[k] = b[i])

\* ORDER BY created_at desc, id asc
ListBefore_IdAscending(r, o) ==
    \/ r.CreatedAt > o.CreatedAt
    \/ r.CreatedAt = o.CreatedAt /\ uuidLess(r.ID, o.ID)

\* ORDER BY created_at desc, id desc
ListBefore(r, o) ==
    \/ r.CreatedAt > o.CreatedAt
    \/ r.CreatedAt = o.CreatedAt /\ uuidLess(o.ID, r.ID)

RECURSIVE OrderedRows(_)
OrderedRows(S) ==
    IF S = {} THEN <<>>
    ELSE LET first == CHOOSE r \in S : \A o \in S \ {r} : ListBefore(r, o)
         IN  <<first>> \o OrderedRows(S \ {first})

\* ListSubscriptions that leaves out gorm's "deleted_at IS NULL"
Storage_ListSubscriptions_WithDeleted(table, filter) ==
    OrderedRows({r \in table :
                    /\ filter.UserID # Nil => r.UserID = Deref(filter.UserID)
                    /\ filter.ServiceName # Nil => r.ServiceName = Deref(filter.ServiceName)})

\* ListSubscriptions whose second Where replaces the first: with both filters
\* only service_name is applied
Storage_ListSubscriptions_LastFilterOnly(table, filter) ==
    LET all == OrderedRows({r \in Live(table) :
                    IF filter.ServiceName # Nil
                    THEN r.ServiceName = Deref(filter.ServiceName)
                    ELSE filter.UserID # Nil => r.UserID = Deref(filter.UserID)})
        off == IF filter.Offset # Nil THEN Deref(filter.Offset) ELSE 0
        to  == IF filter.Limit # Nil /\ off + Deref(filter.Limit) < Len(all)
               THEN off + Deref(filter.Limit) ELSE Len(all)
    IN  IF off >= to THEN <<>> ELSE SubSeq(all, off + 1, to)

\* ListSubscriptions that cuts the result to LIMIT rows before it skips
\* OFFSET of them
Storage_ListSubscriptions_LimitBeforeOffset(table, filter) ==
    LET all == OrderedRows({r \in Live(table) :
                    /\ filter.UserID # Nil => r.UserID = Deref(filter.UserID)
                    /\ filter.ServiceName # Nil => r.ServiceName = Deref(filter.ServiceName)})
        off == IF filter.Offset # Nil THEN Deref(filter.Offset) ELSE 0
        to  == IF filter.Limit # Nil /\ Deref(filter.Limit) < Len(all)
               THEN Deref(filter.Limit) ELSE Len(all)
    IN  IF off >= to THEN <<>> ELSE SubSeq(all, off + 1, to)

\* ListSubscriptions: the live rows that pass the filters, ordered, then
\* OFFSET and LIMIT
Storage_ListSubscriptions(table, filter) ==
    LET all == OrderedRows({r \in Live(table) :
                    /\ filter.UserID # Nil => r.UserID = Deref(filter.UserID)
                    /\ filter.ServiceName # Nil => r.ServiceName = Deref(filter.ServiceName)})
        off == IF filter.Offset # Nil THEN Deref(filter.Offset) ELSE 0
        to  == IF filter.Limit # Nil /\ off + Deref(filter.Limit) < Len(all)
               THEN off + Deref(filter.Limit) ELSE Len(all)
    IN  IF off >= to THEN <<>> ELSE SubSeq(all, off + 1, to)

\* TotalSubscriptionsCost that counts the months between the two ends
\* without the first one
Storage_TotalSubscriptionsCost_ExclusiveMonths(table, filter, startDate, endDate) ==
    LET selected == {r \in Live(table) :
                        /\ filter.UserID # Nil => r.UserID = Deref(filter.UserID)
                        /\ filter.ServiceName # Nil => r.ServiceName = Deref(filter.ServiceName)
                        /\ ~After(r.StartDate, endDate)
                        /\ r.EndDate = Nil \/ ~Before(Deref(r.EndDate), startDate)}
        LEAST(x, y) == IF Before(x, y) THEN x ELSE y
        GREATEST(x, y) == IF After(x, y) THEN x ELSE y
        COALESCE(x, y) == IF x # Nil THEN Deref(x) ELSE y
        term(r) ==
            LET e == LEAST(COALESCE(r.EndDate, endDate), endDate)
                b == GREATEST(r.StartDate, startDate)
            IN  ((e.year * 12 + e.month) - (b.year * 12 + b.month)) * r.Price
        RECURSIVE SUM(_)
        SUM(S) == IF S = {} THEN 0
                  ELSE LET r == CHOOSE x \in S : TRUE IN term(r) + SUM(S \ {r})
    IN  SUM(selected)

\* TotalSubscriptionsCost of the store: one SELECT over the live rows that
\* pass the filters and overlap the window, COALESCE(SUM(months * price), 0)
Storage_TotalSubscriptionsCost(table, filter, startDate, endDate) ==
    LET selected == {r \in Live(table) :
                        /\ filter.UserID # Nil => r.UserID = Deref(filter.UserID)
                        /\ filter.ServiceName # Nil => r.ServiceName = Deref(filter.ServiceName)
                        /\ ~After(r.StartDate, endDate)
                        /\ r.EndDate = Nil \/ ~Before(Deref(r.EndDate), startDate)}
        LEAST(x, y) == IF Before(x, y) THEN x ELSE y
        GREATEST(x, y) == IF After(x, y) THEN x ELSE y
        COALESCE(x, y) == IF x # Nil THEN Deref(x) ELSE y
        term(r) ==
            LET e == LEAST(COALESCE(r.EndDate, endDate), endDate)
                b == GREATEST(r.StartDate, startDate)
            IN  ((e.year * 12 + e.month) - (b.year * 12 + b.month) + 1) * r.Price
        RECURSIVE SUM(_)
        SUM(S) == IF S = {} THEN 0
                  ELSE LET r == CHOOSE x \in S : TRUE IN term(r) + SUM(S \ {r})
    IN  SUM(selected)

\* ------------------------------------------------------------------------
\* The domain service (service.SubscriptionServiceImpl)
\* ------------------------------------------------------------------------

ErrValidationError == "ValidationError"

ErrNotFound == "NotFound"

\* any other error the store returns, passed on unwrapped
ErrStorage == "StorageError"

Failure(kind, text) == [err |-> kind, msg |-> text, sub |-> Nil]

\* CreateSubscription up to the store call: the record to insert, or the error
Service_BuildSubscription(req, id, t) ==
    LET v == CreateSubscriptionRequest_Validate(req)
        d == CreateSubscriptionRequest_ParseDates(req)
    IN  IF v # "" THEN Failure(ErrValidationError, v)
        ELSE IF d.err # "" THEN Failure(ErrValidationError, d.err)
        ELSE [err |-> "", msg |-> "",
              sub |-> Ptr([ID          |-> id,
                           ServiceName |-> req.ServiceName,
                           Price       |-> req.Price,
                           UserID      |-> Deref(uuidParse(req.UserID)),
                           StartDate   |-> d.start,
                           EndDate     |-> d.end,
                           CreatedAt   |-> t,
                           UpdatedAt   |-> t,
                           DeletedAt   |-> Nil])]

\* Service_MergeUpdate without the check of the merged dates: only the dates
\* of the request itself are compared (by ParseDates)
Service_MergeUpdate_NoMergedCheck(current, req, t) ==
    LET d == UpdateSubscriptionRequest_ParseDates(req)
    IN  IF d.err # "" THEN [err |-> ErrValidationError, msg |-> d.err, sub |-> Nil]
        ELSE [err |-> "", msg |-> "",
              sub |-> Ptr([current EXCEPT
                        !.ServiceName = IF req.ServiceName # Nil
                                        THEN Deref(req.ServiceName) ELSE @,
                        !.Price       = IF req.Price # Nil THEN Deref(req.Price) ELSE @,
                        !.StartDate   = IF d.start # Nil THEN Deref(d.start) ELSE @,
                        !.EndDate     = IF d.clearEnd THEN Nil
                                        ELSE IF d.end # Nil THEN d.end ELSE @,
                        !.UpdatedAt   = t])]

\* Service_MergeUpdate that checks the stored end_date against the new
\* start_date, before the request's end_date is merged in
Service_MergeUpdate_ChecksStoredEnd(current, req, t) ==
    LET d == UpdateSubscriptionRequest_ParseDates(req)
        startDate == IF d.start # Nil THEN Deref(d.start) ELSE current.StartDate
        endDate   == IF d.clearEnd THEN Nil
                     ELSE IF d.end # Nil THEN d.end
                     ELSE current.EndDate
    IN  IF d.err # "" THEN [err |-> ErrValidationError, msg |-> d.err, sub |-> Nil]
        ELSE IF current.EndDate # Nil /\ Before(Deref(current.EndDate), startDate)
            THEN [err |-> ErrValidationError,
                  msg |-> "subscription end date cannot precede start date", sub |-> Nil]
        ELSE [err |-> "", msg |-> "",
              sub |-> Ptr([current EXCEPT
                        !.ServiceName = IF req.ServiceName # Nil
                                        THEN Deref(req.ServiceName) ELSE @,
                        !.Price       = IF req.Price # Nil THEN Deref(req.Price) ELSE @,
                        !.StartDate   = startDate,
                        !.EndDate     = endDate,
                        !.UpdatedAt   = t])]

\* Service_MergeUpdate that assigns the request's end_date also when the
\* request carries none
Service_MergeUpdate_AssignsAbsentEnd(current, req, t) ==
    LET d == UpdateSubscriptionRequest_ParseDates(req)
        startDate == IF d.start # Nil THEN Deref(d.start) ELSE current.StartDate
    IN  IF d.err # "" THEN [err |-> ErrValidationError, msg |-> d.err, sub |-> Nil]
        ELSE IF d.end # Nil /\ Before(Deref(d.end), startDate)
            THEN [err |-> ErrValidationError,
                  msg |-> "subscription end date cannot precede start date", sub |-> Nil]
        ELSE [err |-> "", msg |-> "",
              sub |-> Ptr([current EXCEPT
                        !.ServiceName = IF req.ServiceName # Nil
                                        THEN Deref(req.ServiceName) ELSE @,
                        !.Price       = IF req.Price # Nil THEN Deref(req.Price) ELSE @,
                        !.StartDate   = startDate,
                        !.EndDate     = d.end,
                        !.UpdatedAt   = t])]

\* UpdateSubscriptionByID that assigns the request's user_id to the record
Service_MergeUpdate_AssignsUserID(current, req, t) ==
    LET d == UpdateSubscriptionRequest_ParseDates(req)
        startDate == IF d.start # Nil THEN Deref(d.start) ELSE current.StartDate
        endDate   == IF d.clearEnd THEN Nil
                     ELSE IF d.end # Nil THEN d.end
                     ELSE current.EndDate
    IN  IF d.err # "" THEN Failure(ErrValidationError, d.err)
        ELSE IF endDate # Nil /\ Before(Deref(endDate), startDate)
            THEN Failure(ErrValidationError,
                         "subscription end date cannot precede start date")
        ELSE [err |-> "", msg |-> "",
              sub |-> Ptr([current EXCEPT
                        !.ServiceName = IF req.ServiceName # Nil
                                        THEN Deref(req.ServiceName) ELSE @,
                        !.Price       = IF req.Price # Nil THEN Deref(req.Price) ELSE @,
                        !.UserID      = IF req.UserID # Nil THEN Deref(req.UserID) ELSE @,
                        !.StartDate   = startDate,
                        !.EndDate     = endDate,
                        !.UpdatedAt   = t])]

\* UpdateSubscriptionByID, lines 226-254: the dates of the request merged
\* into the record read from the store, checked, and the other fields applied
Service_MergeUpdate(current, req, t) ==
    LET d == UpdateSubscriptionRequest_ParseDates(req)
        startDate == IF d.start # Nil THEN Deref(d.start) ELSE current.StartDate
        endDate   == IF d.clearEnd THEN Nil
                     ELSE IF d.end # Nil THEN d.end
                     ELSE current.EndDate
    IN  IF d.err # "" THEN Failure(ErrValidationError, d.err)
        ELSE IF endDate # Nil /\ Before(Deref(endDate), startDate)
            THEN Failure(ErrValidationError,
                         "subscription end date cannot precede start date")
        ELSE [err |-> "", msg |-> "",
              sub |-> Ptr([current EXCEPT
                        !.ServiceName = IF req.ServiceName # Nil
                                        THEN Deref(req.ServiceName) ELSE @,
                        !.Price       = IF req.Price # Nil THEN Deref(req.Price) ELSE @,
                        !.StartDate   = startDate,
                        !.EndDate     = endDate,
                        !.UpdatedAt   = t])]

\* UpdateSubscriptionByID up to the store's UPDATE: the merged record, or the error
Service_PrepareUpdate(table, idText, req, t, dbFail) ==
    LET uid == uuidParse(idText)
        v   == UpdateSubscriptionRequest_Validate(req)
        got == Storage_GetSubscriptionByID(table, Deref(uid))
    IN  IF uid = Nil THEN Failure(ErrValidationError, "invalid subscription UUID")
        ELSE IF v # "" THEN Failure(ErrValidationError, v)
        ELSE IF dbFail THEN Failure(ErrStorage, "db")
        ELSE IF got = Nil THEN Failure(ErrNotFound, "Subscription not found")
        ELSE Service_MergeUpdate(Deref(got), req, t)

\* the loop of TotalSubscriptionsCost over the listed records
RECURSIVE SumCosts(_, _, _)
SumCosts(subs, startDate, endDate) ==
    IF subs = <<>> THEN 0
    ELSE calculateSubscriptionCost(Head(subs), startDate, endDate)
         + SumCosts(Tail(subs), startDate, endDate)

\* TotalSubscriptionsCost: (total, error)
Service_TotalSubscriptionsCost(table, req, dbFail) ==
    LET startDate == String2Date(req.StartDate)
        endDate   == String2Date(req.EndDate)
        uid       == uuidParse(req.UserID)
        filter    == [UserID      |-> IF req.UserID # <<>> THEN uid ELSE Nil,
                      ServiceName |-> IF req.ServiceName # <<>>
                                      THEN Ptr(req.ServiceName) ELSE Nil,
                      Limit       |-> Nil,
                      Offset      |-> Nil]
        failed(kind, text) == [err |-> kind, msg |-> text, total |-> 0]
    IN  IF startDate.err # "" THEN failed(ErrValidationError, "invalid start date")
        ELSE IF endDate.err # "" THEN failed(ErrValidationError, "invalid end date")
        ELSE IF Before(endDate.t, startDate.t)
            THEN failed(ErrValidationError, "end date cannot precede start date")
        ELSE IF req.UserID # <<>> /\ uid = Nil
            THEN failed(ErrValidationError, "invalid user ID")
        ELSE IF dbFail THEN failed(ErrStorage, "db")
        ELSE [err |-> "", msg |-> "",
              total |-> SumCosts(Storage_ListSubscriptions(table, filter),
                                 startDate.t, endDate.t)]

\* ListSubscriptions that rejects a negative limit only
Service_ListSubscriptions_AcceptsZeroLimit(table, req, dbFail) ==
    LET uid    == uuidParse(req.UserID)
        filter == [UserID      |-> IF req.UserID # <<>> THEN uid ELSE Nil,
                   ServiceName |-> IF req.ServiceName # <<>>
                                   THEN Ptr(req.ServiceName) ELSE Nil,
                   Limit       |-> req.Limit,
                   Offset      |-> req.Offset]
        failed(kind, text) == [err |-> kind, msg |-> text, subs |-> <<>>]
    IN  IF req.UserID # <<>> /\ uid = Nil
            THEN failed(ErrValidationError, "invalid user ID")
        ELSE IF req.Limit # Nil /\ Deref(req.Limit) < 0
            THEN failed(ErrValidationError, "invalid limit")
        ELSE IF req.Offset # Nil /\ Deref(req.Offset) < 0
            THEN failed(ErrValidationError, "invalid offset")
        ELSE IF dbFail THEN failed(ErrStorage, "db")
        ELSE [err |-> "", msg |-> "", subs |-> Storage_ListSubscriptions(table, filter)]

\* ListSubscriptions: (list, error); Limit and Offset are optional integers
Service_ListSubscriptions(table, req, dbFail) ==
    LET uid    == uuidParse(req.UserID)
        filter == [UserID      |-> IF req.UserID # <<>> THEN uid ELSE Nil,
                   ServiceName |-> IF req.ServiceName # <<>>
                                   THEN Ptr(req.ServiceName) ELSE Nil,
                   Limit       |-> req.Limit,
                   Offset      |-> req.Offset]
        failed(kind, text) == [err |-> kind, msg |-> text, subs |-> <<>>]
    IN  IF req.UserID # <<>> /\ uid = Nil
            THEN failed(ErrValidationError, "invalid user ID")
        ELSE IF req.Limit # Nil /\ Deref(req.Limit) <= 0
            THEN failed(ErrValidationError, "invalid limit")
        ELSE IF req.Offset # Nil /\ Deref(req.Offset) < 0
            THEN failed(ErrValidationError, "invalid offset")
        ELSE IF dbFail THEN failed(ErrStorage, "db")
        ELSE [err |-> "", msg |-> "", subs |-> Storage_ListSubscriptions(table, filter)]

\* ------------------------------------------------------------------------
\* Handlers as steps of a request goroutine
\* ------------------------------------------------------------------------

Issued == {r.ID : r \in rows}

Done(p, call) ==
    /\ last' = call
    /\ proc' = [proc EXCEPT ![p] = Idle]

Returned(name, x) == [op |-> name, err |-> x.err, msg |-> x.msg, sub |-> x.sub]

\* time passes
Tick ==
    /\ now < MaxTime
    /\ now' = now + 1
    /\ UNCHANGED <<rows, proc, last, arg>>

\* SubscriptionServiceImpl.CreateSubscription; id is what uuid.New() returns,
\* dbFail whether the store's INSERT fails
CreateSubscription(p, req, id, dbFail) ==
    LET r == Service_BuildSubscription(req, id, now)
        w == Storage_CreateSubscription(rows, Deref(r.sub))
    IN  /\ proc[p].pc = "idle"
        /\ dbFail => (r.err = "" /\ id \notin Issued)
        /\ IF r.err # "" THEN rows' = rows /\ Done(p, Returned("Create", r))
           ELSE IF dbFail \/ ~w.ok
               THEN rows' = rows /\ Done(p, Returned("Create", Failure(ErrStorage, "db")))
           ELSE /\ rows' = w.table
                /\ Done(p, Returned("Create", r))
        /\ UNCHANGED <<now, arg>>

\* SubscriptionServiceImpl.GetSubscriptionByID
GetSubscriptionByID(p, idText, dbFail) ==
    LET uid == uuidParse(idText)
        got == Storage_GetSubscriptionByID(rows, Deref(uid))
        r   == IF uid = Nil THEN Failure(ErrValidationError, "invalid subscription UUID")
               ELSE IF dbFail THEN Failure(ErrStorage, "db")
               ELSE IF got = Nil THEN Failure(ErrNotFound, "Subscription not found")
               ELSE [err |-> "", msg |-> "", sub |-> got]
    IN  /\ proc[p].pc = "idle"
        /\ dbFail => uid # Nil
        /\ Done(p, Returned("Get", r))
        /\ UNCHANGED <<rows, now, arg>>

\* SubscriptionServiceImpl.UpdateSubscriptionByID, first part: validation, the
\* store's SELECT, the merge and its check
UpdateRead(p, idText, req, dbFail) ==
    LET r == Service_PrepareUpdate(rows, idText, req, now, dbFail)
    IN  /\ proc[p].pc = "idle"
        /\ dbFail => r.err = ErrStorage
        /\ IF r.err # ""
           THEN Done(p, Returned("Update", r))
           ELSE /\ proc' = [proc EXCEPT ![p] = [pc |-> "write", current |-> Deref(r.sub)]]
                /\ last' = last
        /\ UNCHANGED <<rows, now, arg>>

\* UpdateSubscriptionByID whose UPDATE takes effect although the store
\* reports a failure
UpdateWrite_AppliesFailedWrite(p, dbFail) ==
    LET current == proc[p].current
        w == Storage_UpdateSubscriptionByID(rows, current, now)
    IN  /\ proc[p].pc = "write"
        /\ IF dbFail
           THEN rows' = w.table /\ Done(p, Returned("Update", Failure(ErrStorage, "db")))
           ELSE IF w.rowsAffected = 0
               THEN /\ rows' = rows
                    /\ Done(p, Returned("Update",
                                        Failure(ErrNotFound, "Subscription not found")))
           ELSE /\ rows' = w.table
                /\ Done(p, Returned("Update", [err |-> "", msg |-> "", sub |-> Ptr(current)]))
        /\ UNCHANGED <<now, arg>>

\* SubscriptionServiceImpl.UpdateSubscriptionByID, second part: the store's
\* UPDATE and the return
UpdateWrite(p, dbFail) ==
    LET current == proc[p].current
        w == Storage_UpdateSubscriptionByID(rows, current, now)
    IN  /\ proc[p].pc = "write"
        /\ IF dbFail
           THEN rows' = rows /\ Done(p, Returned("Update", Failure(ErrStorage, "db")))
           ELSE IF w.rowsAffected = 0
               THEN /\ rows' = rows
                    /\ Done(p, Returned("Update",
                                        Failure(ErrNotFound, "Subscription not found")))
           ELSE /\ rows' = w.table
                /\ Done(p, Returned("Update", [err |-> "", msg |-> "", sub |-> Ptr(current)]))
        /\ UNCHANGED <<now, arg>>

\* SubscriptionServiceImpl.DeleteSubscriptionByID
DeleteSubscriptionByID(p, idText, dbFail) ==
    LET uid == uuidParse(idText)
        w   == Storage_DeleteSubscriptionByID(rows, Deref(uid), now)
        r   == IF uid = Nil THEN Failure(ErrValidationError, "invalid subscription UUID")
               ELSE IF dbFail THEN Failure(ErrStorage, "db")
               ELSE IF w.rowsAffected = 0
                   THEN Failure(ErrNotFound, "Subscription not found")
               ELSE [err |-> "", msg |-> "", sub |-> Nil]
    IN  /\ proc[p].pc = "idle"
        /\ dbFail => uid # Nil
        /\ rows' = IF r.err = "" THEN w.table ELSE rows
        /\ Done(p, Returned("Delete", r))
        /\ UNCHANGED <<now, arg>>

\* SubscriptionServiceImpl.TotalSubscriptionsCost
TotalSubscriptionsCost(p, req, dbFail) ==
    LET r == Service_TotalSubscriptionsCost(rows, req, dbFail)
    IN  /\ proc[p].pc = "idle"
        /\ dbFail => r.err = ErrStorage
        /\ Done(p, [op |-> "TotalCost", req |-> req,
                    err |-> r.err, msg |-> r.msg, total |-> r.total])
        /\ UNCHANGED <<rows, now, arg>>

\* SubscriptionServiceImpl.ListSubscriptions
ListSubscriptions(p, req, dbFail) ==
    LET r == Service_ListSubscriptions(rows, req, dbFail)
    IN  /\ proc[p].pc = "idle"
        /\ dbFail => r.err = ErrStorage
        /\ Done(p, [op |-> "List", req |-> req,
                    err |-> r.err, msg |-> r.msg, subs |-> r.subs])
        /\ UNCHANGED <<rows, now, arg>>

\* ------------------------------------------------------------------------
\* The delivery layer (controllers.SubscriptionController)
\* ------------------------------------------------------------------------

\* the request could not be bound (ShouldBindJSON, ShouldBindUri,
\* ShouldBindQuery): the service is not called
ErrBind == "BindError"

\* err.Error() of what a service method returns
ErrorText(call) ==
    IF call.err = ErrValidationError THEN <<"Validation error: ", call.msg>>
    ELSE IF call.err = ErrNotFound THEN <<"Subscription not found">>
    ELSE <<call.msg>>

\* service.ErrIES.Error()
ErrIES == <<"Internal server error">>

\* ctx.JSON(status, ErrorResponse{Error: text})
ErrorResponse(status, text) == [status |-> status, body |-> "error", error |-> text]

\* ctx.JSON(status, payload) and ctx.AbortWithStatus(status)
Success(status, kind) == [status |-> status, body |-> kind, error |-> <<>>]

Controller_CreateSubscription(call) ==
    IF call.err = ErrBind THEN ErrorResponse(400, <<"ErrBadJSON">>)
    ELSE IF call.err = ErrValidationError THEN ErrorResponse(400, ErrorText(call))
    ELSE IF call.err # "" THEN ErrorResponse(500, ErrIES)
    ELSE Success(201, "subscription")

Controller_GetSubscriptionByID(call) ==
    IF call.err = ErrBind THEN ErrorResponse(400, <<"ErrBadParam">>)
    ELSE IF call.err = ErrValidationError THEN ErrorResponse(400, ErrorText(call))
    ELSE IF call.err = ErrNotFound THEN ErrorResponse(404, ErrorText(call))
    ELSE IF call.err # "" THEN ErrorResponse(500, ErrIES)
    ELSE Success(200, "subscription")

\* UpdateSubscriptionByID that answers an unclassified error with its text
Controller_UpdateSubscriptionByID_LeaksError(call) ==
    IF call.err = ErrBind THEN ErrorResponse(400, <<call.msg>>)
    ELSE IF call.err = ErrValidationError THEN ErrorResponse(400, ErrorText(call))
    ELSE IF call.err = ErrNotFound THEN ErrorResponse(404, ErrorText(call))
    ELSE IF call.err # "" THEN ErrorResponse(500, ErrorText(call))
    ELSE Success(200, "subscription")

\* the bind error is ErrBadParam for the id and ErrBadJSON for the body
Controller_UpdateSubscriptionByID(call) ==
    IF call.err = ErrBind THEN ErrorResponse(400, <<call.msg>>)
    ELSE IF call.err = ErrValidationError THEN ErrorResponse(400, ErrorText(call))
    ELSE IF call.err = ErrNotFound THEN ErrorResponse(404, ErrorText(call))
    ELSE IF call.err # "" THEN ErrorResponse(500, ErrIES)
    ELSE Success(200, "subscription")

Controller_DeleteSubscriptionByID(call) ==
    IF call.err = ErrBind THEN ErrorResponse(400, <<"ErrBadParam">>)
    ELSE IF call.err = ErrValidationError THEN ErrorResponse(400, ErrorText(call))
    ELSE IF call.err = ErrNotFound THEN ErrorResponse(404, ErrorText(call))
    ELSE IF call.err # "" THEN ErrorResponse(500, ErrIES)
    ELSE Success(200, "none")

Controller_ListSubscriptions(call) ==
    IF call.err = ErrBind THEN ErrorResponse(400, <<call.msg>>)
    ELSE IF call.err = ErrValidationError THEN ErrorResponse(400, ErrorText(call))
    ELSE IF call.err # "" THEN ErrorResponse(500, ErrIES)
    ELSE Success(200, "subscriptions")

\* TotalSubscriptionsCost that answers every error with 500
Controller_TotalSubscriptionsCost_AlwaysInternal(call) ==
    IF call.err = ErrBind THEN ErrorResponse(400, <<call.msg>>)
    ELSE IF call.err # "" THEN ErrorResponse(500, ErrIES)
    ELSE Success(200, "total")

Controller_TotalSubscriptionsCost(call) ==
    IF call.err = ErrBind THEN ErrorResponse(400, <<call.msg>>)
    ELSE IF call.err = ErrValidationError THEN ErrorResponse(400, ErrorText(call))
    ELSE IF call.err # "" THEN ErrorResponse(500, ErrIES)
    ELSE Success(200, "total")

\* the response the controller of call.op writes for what the service returned
Controller_Respond(call) ==
    CASE call.op = "Create"    -> Controller_CreateSubscription(call)
      [] call.op = "Get"       -> Controller_GetSubscriptionByID(call)
      [] call.op = "Update"    -> Controller_UpdateSubscriptionByID(call)
      [] call.op = "Delete"    -> Controller_DeleteSubscriptionByID(call)
      [] call.op = "List"      -> Controller_ListSubscriptions(call)
      [] call.op = "TotalCost" -> Controller_TotalSubscriptionsCost(call)

\* the response to the last call has been written (arg holds it)
Answered == IF last = NoCall THEN TRUE ELSE arg = Ptr(Controller_Respond(last))

\* the controller writes the response to what the service returned
Respond ==
    /\ ~ Answered
    /\ \A p \in Procs : proc[p].pc = "idle"
    /\ arg' = Ptr(Controller_Respond(last))
    /\ UNCHANGED <<rows, now, proc, last>>

\* the controller of an endpoint fails to bind the request
BindFails(p, endpoint, text) ==
    /\ proc[p].pc = "idle"
    /\ Done(p, [op |-> endpoint, err |-> ErrBind, msg |-> text, sub |-> Nil])
    /\ UNCHANGED <<rows, now, arg>>

\* ------------------------------------------------------------------------
\* Request pools
\* ------------------------------------------------------------------------

Spaces == <<" ", " ">>

\* a date in YYYY-MM order
ReversedDate == <<"2", "0", "2", "4", "-", "0", "1">>

MonthTexts == {Format(MonthAt(i)) : i \in 0..MaxMonth}

IdTexts == IdPool \cup {NotAUUID}

OptOf(S) == {Nil} \cup {Ptr(x) : x \in S}

CreateReqs ==
    [ServiceName : {<<>>, Spaces, <<"A">>},
     Price       : 0..MaxPrice,
     UserID      : {<<>>, NotAUUID, User1},
     StartDate   : {<<>>, ReversedDate} \cup MonthTexts,
     EndDate     : OptOf({ReversedDate} \cup MonthTexts)]

UpdateReqs ==
    [ServiceName : OptOf({<<>>, Spaces, <<"B">>}),
     Price       : OptOf({0, MaxPrice}),
     UserID      : OptOf({User2}),
     StartDate   : OptOf({ReversedDate} \cup MonthTexts),
     EndDate     : OptOf({<<>>, Spaces, ReversedDate} \cup MonthTexts)]

TotalReqs ==
    [UserID      : {<<>>, NotAUUID, User1},
     ServiceName : {<<>>, <<"A">>},
     StartDate   : {<<>>, ReversedDate} \cup MonthTexts,
     EndDate     : {<<>>, ReversedDate} \cup MonthTexts]

ListReqs ==
    [UserID      : {<<>>, NotAUUID, User1},
     ServiceName : {<<>>, <<"A">>},
     Limit       : OptOf(0..MaxTotalSubs),
     Offset      : OptOf(-1..1)]

\* ------------------------------------------------------------------------
\* Spec: requests served one at a time against the store, from an empty table
\* ------------------------------------------------------------------------

BaseCreate ==
    [ServiceName |-> <<"A">>, Price |-> 1, UserID |-> User1,
     StartDate |-> Format(MonthAt(0)), EndDate |-> Nil]

\* create requests that differ from BaseCreate in the name, in the price, in
\* the user or in the dates
SeqCreateReqs ==
    {r \in CreateReqs :
        Cardinality({f \in {"ServiceName", "Price", "UserID"} : r[f] # BaseCreate[f]}
                    \cup (IF r.StartDate # BaseCreate.StartDate \/ r.EndDate # BaseCreate.EndDate
                          THEN {"dates"} ELSE {})) <= 1}

\* update requests that carry one field, or both dates
SeqUpdateReqs ==
    {r \in UpdateReqs :
        LET present == {f \in DOMAIN r : r[f] # Nil}
        IN  Cardinality(present) = 1 \/ present = {"StartDate", "EndDate"}}

Init ==
    /\ rows = {}
    /\ now = 0
    /\ proc = [p \in Procs |-> Idle]
    /\ last = NoCall
    /\ arg = Nil

Next ==
    \/ Tick
    \/ \E p \in {1} :
        \/ \E req \in SeqCreateReqs, id \in IdPool, dbFail \in BOOLEAN :
              CreateSubscription(p, req, id, dbFail)
        \/ \E idText \in IdTexts, dbFail \in BOOLEAN : GetSubscriptionByID(p, idText, dbFail)
        \/ \E idText \in IdTexts, req \in SeqUpdateReqs, dbFail \in BOOLEAN :
              UpdateRead(p, idText, req, dbFail)
        \/ \E dbFail \in BOOLEAN : UpdateWrite(p, dbFail)
        \/ \E idText \in IdTexts, dbFail \in BOOLEAN :
              DeleteSubscriptionByID(p, idText, dbFail)

Spec == Init /\ [][Next]_vars

\* ------------------------------------------------------------------------
\* SpecRace: two request goroutines whose store calls interleave
\* ------------------------------------------------------------------------

RaceCreateReqs ==
    {r \in CreateReqs :
        /\ r.ServiceName = BaseCreate.ServiceName
        /\ r.Price = BaseCreate.Price
        /\ r.UserID = BaseCreate.UserID
        /\ r.StartDate \in MonthTexts
        /\ r.EndDate \in OptOf(MonthTexts)}

RaceUpdateReqs ==
    {r \in UpdateReqs :
        /\ r.ServiceName \in OptOf({<<"B">>})
        /\ r.UserID = Nil
        /\ r.StartDate \in OptOf(MonthTexts)
        /\ r.EndDate \in OptOf({<<>>} \cup MonthTexts)}

NextRace ==
    \E p \in Procs :
        \/ \E req \in RaceCreateReqs, id \in IdPool : CreateSubscription(p, req, id, FALSE)
        \/ \E id \in IdPool, req \in RaceUpdateReqs : UpdateRead(p, id, req, FALSE)
        \/ UpdateWrite(p, FALSE)
        \/ \E id \in IdPool : DeleteSubscriptionByID(p, id, FALSE)

SpecRace == Init /\ [][NextRace]_vars

\* ------------------------------------------------------------------------
\* SpecTotal: records are created and deleted, then one total-cost query runs
\* ------------------------------------------------------------------------

\* create requests of two users and two services; the records that differ
\* from BaseCreate in the service or in the user carry the price MaxPrice
TotalCreateReqs ==
    {r \in [ServiceName : {<<"A">>, <<"B">>},
            Price       : {1, MaxPrice},
            UserID      : {User1, User2},
            StartDate   : MonthTexts,
            EndDate     : OptOf(MonthTexts)] :
        /\ r.ServiceName = <<"B">> => r.UserID = User1
        /\ (r.ServiceName = <<"B">> \/ r.UserID = User2) => r.Price = MaxPrice}

\* queries with a window in either order and any filters, and queries with
\* one malformed parameter
TotalQueryReqs ==
    {r \in TotalReqs :
        LET bad == (IF r.UserID = NotAUUID THEN 1 ELSE 0)
                   + (IF r.StartDate \notin MonthTexts THEN 1 ELSE 0)
                   + (IF r.EndDate \notin MonthTexts THEN 1 ELSE 0)
        IN  bad = 0 \/ (bad = 1 /\ r.ServiceName = <<>>)}

InitTotal ==
    /\ rows = {}
    /\ now = 0
    /\ proc = [p \in Procs |-> Idle]
    /\ last = NoCall
    /\ arg = Nil

NextTotal ==
    \/ \E req \in TotalCreateReqs, id \in TotalIdPool :
          last.op # "TotalCost" /\ CreateSubscription(1, req, id, FALSE)
    \/ \E id \in TotalIdPool :
          last.op # "TotalCost" /\ DeleteSubscriptionByID(1, id, FALSE)
    \/ \E req \in TotalQueryReqs, dbFail \in BOOLEAN :
          last.op # "TotalCost" /\ TotalSubscriptionsCost(1, req, dbFail)

SpecTotal == InitTotal /\ [][NextTotal]_vars

\* the calendar month a well-formed MM-YYYY text of the model names
AllMonths == {MonthAt(i) : i \in 0..MaxCostMonth}

MonthOfText(s) == CHOOSE m \in AllMonths : Format(m) = s

\* the query that returned names a window start <= end and no malformed user id
ValidWindowQuery ==
    /\ last.req.StartDate \in MonthTexts
    /\ last.req.EndDate \in MonthTexts
    /\ MonthIndex(MonthOfText(last.req.StartDate)) <= MonthIndex(MonthOfText(last.req.EndDate))
    /\ last.req.UserID # NotAUUID

\* the live records that match every filter the query provides
MatchingLive ==
    {r \in rows :
        /\ r.DeletedAt = Nil
        /\ last.req.UserID # <<>> => r.UserID = last.req.UserID
        /\ last.req.ServiceName # <<>> => r.ServiceName = last.req.ServiceName}

RECURSIVE ContributionSum(_, _, _)
ContributionSum(S, startDate, endDate) ==
    IF S = {} THEN 0
    ELSE LET r == CHOOSE x \in S : TRUE
         IN  Contribution(r, startDate, endDate) + ContributionSum(S \ {r}, startDate, endDate)

\* --- C2 -----------------------------------------------------------------

\* C2: TotalSubscriptionsCost with a valid window returns exactly the sum,
\* over the live records that match every provided filter (user_id AND
\* service_name), of each record's contribution for the window; a deleted
\* record, a record outside the window and a record that fails a filter add
\* 0.  (A failure of the store's query is returned as the store's error.)
C2_TotalIsSumOfContributions ==
    (last.op = "TotalCost" /\ ValidWindowQuery /\ last.err # ErrStorage) =>
        /\ last.err = ""
        /\ last.total = ContributionSum(MatchingLive, MonthOfText(last.req.StartDate),
                                        MonthOfText(last.req.EndDate))

\* a query with both filters has summed two live matching records with
\* different contributions, e.g. a closed one and an open-ended one
C2_Witness ==
    /\ last.op = "TotalCost"
    /\ last.err = ""
    /\ last.req.UserID # <<>>
    /\ last.req.ServiceName # <<>>
    /\ \E r1, r2 \in MatchingLive :
          LET c1 == Contribution(r1, MonthOfText(last.req.StartDate), MonthOfText(last.req.EndDate))
              c2 == Contribution(r2, MonthOfText(last.req.StartDate), MonthOfText(last.req.EndDate))
          IN  /\ r1.EndDate # Nil
              /\ r2.EndDate = Nil
              /\ 0 < c1
              /\ c1 < c2
              /\ last.total = c1 + c2

\* --- C3 -----------------------------------------------------------------

WindowTexts == {Format(m) : m \in AllMonths}

\* the total the service computes for the stored records and the filters of
\* the query, over the window from text s to text e
TotalOver(s, e) ==
    Service_TotalSubscriptionsCost(rows, [last.req EXCEPT !.StartDate = s, !.EndDate = e], FALSE).total

\* C3: for the stored records and the filters of a query that returned a
\* total, every window that contains the query's window gives a total that
\* is not smaller, and every window contained in it a total that is not
\* larger.
C3_TotalMonotoneInWindow ==
    (last.op = "TotalCost" /\ last.err = "") =>
        \A s, e \in WindowTexts :
            LET S  == MonthIndex(MonthOfText(s))
                E  == MonthIndex(MonthOfText(e))
                S0 == MonthIndex(MonthOfText(last.req.StartDate))
                E0 == MonthIndex(MonthOfText(last.req.EndDate))
            IN  /\ (S <= S0 /\ E0 <= E) => TotalOver(s, e) >= last.total
                /\ (S0 <= S /\ S <= E /\ E <= E0) => TotalOver(s, e) <= last.total

\* a query returned a positive total and a window that starts a month
\* earlier gives a larger one
C3_Witness ==
    /\ last.op = "TotalCost"
    /\ last.err = ""
    /\ last.total > 0
    /\ \E s \in WindowTexts :
          /\ MonthIndex(MonthOfText(s)) < MonthIndex(MonthOfText(last.req.StartDate))
          /\ TotalOver(s, last.req.EndDate) > last.total

\* ------------------------------------------------------------------------
\* SpecUpdate: a record is created, perhaps deleted, and one Update runs
\* ------------------------------------------------------------------------

InitUpdate ==
    /\ rows = {}
    /\ now = 0
    /\ proc = [p \in Procs |-> Idle]
    /\ last = NoCall
    /\ arg \in [id : IdPool, req : UpdateReqs]

NextUpdate ==
    \/ Tick
    \/ \E req \in RaceCreateReqs, id \in IdPool :
          last = NoCall /\ CreateSubscription(1, req, id, FALSE)
    \/ \E id \in IdPool : last.op = "Create" /\ DeleteSubscriptionByID(1, id, FALSE)
    \/ \E dbFail \in BOOLEAN : last.op # "Update" /\ UpdateRead(1, arg.id, arg.req, dbFail)
    \/ \E dbFail \in BOOLEAN : UpdateWrite(1, dbFail)

SpecUpdate == InitUpdate /\ [][NextUpdate]_vars

\* the live record the Update of arg addresses
Stored(table) == CHOOSE r \in table : r.ID = arg.id /\ r.DeletedAt = Nil

HasStored(table) == \E r \in table : r.ID = arg.id /\ r.DeletedAt = Nil

\* the step in which the Update of arg returns success
UpdateSucceeds ==
    /\ last.op # "Update"
    /\ last'.op = "Update"
    /\ last'.err = ""

\* the step in which the Update of arg returns, having found its record
UpdateReturns ==
    /\ last.op # "Update"
    /\ last'.op = "Update"
    /\ HasStored(rows)

OnlyEndDatePresent ==
    /\ arg.req.ServiceName = Nil
    /\ arg.req.Price = Nil
    /\ arg.req.UserID = Nil
    /\ arg.req.StartDate = Nil
    /\ arg.req.EndDate # Nil

\* --- C4 -----------------------------------------------------------------

\* C4: a successful Update keeps the stored end_date when the request has no
\* end_date, stores the named month when end_date is a valid MM-YYYY text,
\* and stores null when end_date is the empty string; a request that carries
\* only the empty end_date leaves every other field of the record as it was,
\* except updated_at.
C4_EndDateThreeStates ==
    [][UpdateSucceeds =>
        LET before == Stored(rows)
            after  == Stored(rows')
        IN  /\ HasStored(rows')
            /\ arg.req.EndDate = Nil => after.EndDate = before.EndDate
            /\ (arg.req.EndDate # Nil /\ Deref(arg.req.EndDate) \in MonthTexts) =>
                  after.EndDate = Ptr(MonthOfText(Deref(arg.req.EndDate)))
            /\ arg.req.EndDate = Ptr(<<>>) => after.EndDate = Nil
            /\ (OnlyEndDatePresent /\ arg.req.EndDate = Ptr(<<>>)) =>
                  after = [before EXCEPT !.EndDate = Nil, !.UpdatedAt = after.UpdatedAt]
    ]_vars

\* C4 with updated_at among the kept fields: a request that carries only
\* the empty end_date leaves every other field of the record as it was
C4_EveryOtherFieldKept ==
    [][(UpdateSucceeds /\ OnlyEndDatePresent /\ arg.req.EndDate = Ptr(<<>>)) =>
        Stored(rows') = [Stored(rows) EXCEPT !.EndDate = Nil]
    ]_vars

\* an Update that carried only end_date = "" has succeeded at a later instant
\* than the record's creation, and the record is open-ended
C4_Witness ==
    /\ last.op = "Update"
    /\ last.err = ""
    /\ OnlyEndDatePresent
    /\ arg.req.EndDate = Ptr(<<>>)
    /\ HasStored(rows)
    /\ Stored(rows).EndDate = Nil
    /\ Stored(rows).UpdatedAt > Stored(rows).CreatedAt

\* --- C5 -----------------------------------------------------------------

\* C5: a successful Update leaves every field of service_name, price,
\* start_date and end_date that is absent from the request at its stored
\* value, and a request with no field present leaves every field unchanged
\* except updated_at.
C5_AbsentFieldsUnchanged ==
    [][UpdateSucceeds =>
        LET before == Stored(rows)
            after  == Stored(rows')
        IN  /\ HasStored(rows')
            /\ arg.req.ServiceName = Nil => after.ServiceName = before.ServiceName
            /\ arg.req.Price = Nil => after.Price = before.Price
            /\ arg.req.StartDate = Nil => after.StartDate = before.StartDate
            /\ arg.req.EndDate = Nil => after.EndDate = before.EndDate
            /\ (\A f \in DOMAIN arg.req : arg.req[f] = Nil) =>
                  after = [before EXCEPT !.UpdatedAt = after.UpdatedAt]
            /\ rows' \ {after} = rows \ {before}
    ]_vars

\* an Update with no field present has succeeded at a later instant than the
\* record's creation: updated_at moved, the name is the created one
C5_Witness ==
    /\ last.op = "Update"
    /\ last.err = ""
    /\ \A f \in DOMAIN arg.req : arg.req[f] = Nil
    /\ HasStored(rows)
    /\ Stored(rows).UpdatedAt > Stored(rows).CreatedAt
    /\ Stored(rows).ServiceName = BaseCreate.ServiceName

\* --- C6 -----------------------------------------------------------------

\* the month a date field of the request names, when it names one
ReqMonth(field) == MonthIndex(MonthOfText(Deref(field)))

\* the request's dates are absent, well-formed or (end_date) empty, and the
\* end_date of the stored record with the request applied lies before its
\* start_date
MergedEndPrecedesStart ==
    LET cur == Stored(rows)
        startIx == IF arg.req.StartDate = Nil THEN MonthIndex(cur.StartDate)
                   ELSE ReqMonth(arg.req.StartDate)
        endIx   == IF arg.req.EndDate = Nil THEN MonthIndex(Deref(cur.EndDate))
                   ELSE ReqMonth(arg.req.EndDate)
    IN  /\ arg.req.StartDate # Nil => Deref(arg.req.StartDate) \in MonthTexts
        /\ arg.req.EndDate # Nil => Deref(arg.req.EndDate) \in MonthTexts
        /\ arg.req.EndDate = Nil => cur.EndDate # Nil
        /\ endIx < startIx

\* C6: an Update whose merged record (the stored record with the request
\* applied) has its end_date before its start_date fails with
\* ValidationError and stores nothing, also when only one of the two dates
\* comes from the request.  (A failure of the store's read is returned as
\* the store's error.)
C6_MergedDatesChecked ==
    [][(UpdateReturns /\ MergedEndPrecedesStart /\ last'.err # ErrStorage) =>
        /\ last'.err = ErrValidationError
        /\ rows' = rows
    ]_vars

\* an Update that carried one date only was refused because that date
\* conflicts with the other date of the stored record
C6_Witness ==
    /\ last.op = "Update"
    /\ last.err = ErrValidationError
    /\ last.msg = "subscription end date cannot precede start date"
    /\ HasStored(rows)
    /\ (arg.req.StartDate = Nil) # (arg.req.EndDate = Nil)
    /\ MergedEndPrecedesStart

\* --- C7 -----------------------------------------------------------------

\* C7: in every reachable state of the store, also when the read and the
\* write of two Updates of one id interleave, every stored record has
\* price > 0 and, when its end_date is present, start_date <= end_date.
C7_StoredRecordsValid ==
    \A r \in rows :
        /\ r.Price > 0
        /\ r.EndDate # Nil => ~Before(Deref(r.EndDate), r.StartDate)

\* two Updates of one record have both read it and neither has written; one
\* carries a start_date that lies after the end_date the other carries
C7_Witness ==
    /\ proc[1].pc = "write"
    /\ proc[2].pc = "write"
    /\ proc[1].current.ID = proc[2].current.ID
    /\ proc[2].current.EndDate # Nil
    /\ Before(Deref(proc[2].current.EndDate), proc[1].current.StartDate)

\* --- C8 -----------------------------------------------------------------

\* C8: a service_name that is empty or only whitespace is rejected by Create
\* and by Update, so no stored record ever has an empty or whitespace-only
\* service_name.
C8_NoBlankServiceName ==
    \A r \in rows : TrimSpace(r.ServiceName) # <<>>

\* ------------------------------------------------------------------------
\* SpecCreate: one Create against an empty store or a store with one record
\* ------------------------------------------------------------------------

SeedRow == Deref(Service_BuildSubscription(BaseCreate, SeedID, 0).sub)

\* the store before the Create: empty, or one record, live or soft-deleted
SeedStores ==
    {{}, {SeedRow}, Storage_DeleteSubscriptionByID({SeedRow}, SeedID, 0).table}

InitCreate ==
    /\ rows \in SeedStores
    /\ now = 0
    /\ proc = [p \in Procs |-> Idle]
    /\ last = NoCall
    /\ arg \in CreateReqs

NextCreate ==
    \/ last = NoCall /\ Tick
    \/ \E id \in IdPool \cup {SeedID}, dbFail \in BOOLEAN :
          last = NoCall /\ CreateSubscription(1, arg, id, dbFail)
    \/ \E dbFail \in BOOLEAN :
          /\ last.op = "Create"
          /\ last.err = ""
          /\ GetSubscriptionByID(1, Deref(last.sub).ID, dbFail)

SpecCreate == InitCreate /\ [][NextCreate]_vars

\* the input of arg breaks a rule of Create: empty service name, price <= 0,
\* empty or malformed user id, empty or malformed start date, malformed end
\* date, or end date before start date
ViolatesCreateRules ==
    \/ arg.ServiceName = <<>>
    \/ arg.Price <= 0
    \/ arg.UserID \in {<<>>, NotAUUID}
    \/ arg.StartDate \notin MonthTexts
    \/ arg.EndDate # Nil /\ Deref(arg.EndDate) \notin MonthTexts
    \/ /\ arg.StartDate \in MonthTexts
       /\ arg.EndDate # Nil
       /\ Deref(arg.EndDate) \in MonthTexts
       /\ ReqMonth(arg.EndDate) < MonthIndex(MonthOfText(arg.StartDate))

\* --- C9 -----------------------------------------------------------------

\* C9: Create with an input that breaks a rule returns ValidationError and
\* the set of stored records is the same after the call as before.
C9_InvalidCreatePersistsNothing ==
    [][(last = NoCall /\ last'.op = "Create" /\ ViolatesCreateRules) =>
        /\ last'.err = ErrValidationError
        /\ rows' = rows
    ]_vars

\* a Create whose only fault is an end date before its start date was
\* refused, and the store holds what it held
C9_Witness ==
    /\ last.op = "Create"
    /\ last.err = ErrValidationError
    /\ rows = {SeedRow}
    /\ arg.ServiceName = <<"A">>
    /\ arg.Price > 0
    /\ arg.UserID = User1
    /\ arg.StartDate \in MonthTexts
    /\ arg.EndDate # Nil
    /\ Deref(arg.EndDate) \in MonthTexts
    /\ ReqMonth(arg.EndDate) < MonthIndex(MonthOfText(arg.StartDate))

\* ------------------------------------------------------------------------
\* SpecValidate: CreateSubscriptionRequest.Validate on bounded inputs
\* ------------------------------------------------------------------------

InitValidate ==
    /\ rows = {}
    /\ now = 0
    /\ proc = [p \in Procs |-> Idle]
    /\ last = NoCall
    /\ arg \in CreateReqs

Validate ==
    /\ last = NoCall
    /\ last' = [op |-> "Validate", err |-> CreateSubscriptionRequest_Validate(arg)]
    /\ UNCHANGED <<rows, now, proc, arg>>

NextValidate == Validate

SpecValidate == InitValidate /\ [][NextValidate]_vars

\* --- C10 ----------------------------------------------------------------

\* C10: CreateSubscriptionRequest.Validate itself returns an error for a
\* start date that is not in MM-YYYY form and for an end date that precedes
\* the start date.
C10_ValidateRejectsBadDates ==
    (/\ last.op = "Validate"
     /\ \/ arg.StartDate = ReversedDate
        \/ /\ arg.StartDate \in MonthTexts
           /\ arg.EndDate # Nil
           /\ Deref(arg.EndDate) \in MonthTexts
           /\ ReqMonth(arg.EndDate) < MonthIndex(MonthOfText(arg.StartDate)))
    => last.err # ""

\* --- C11 ----------------------------------------------------------------

\* C11: a successful Create persists one record under an id that no record
\* of the store, live or soft-deleted, had before, and returns that record;
\* a Get of the id right after it returns the service_name, price, user_id,
\* start_date and end_date the create request carried.  (A failure of the
\* store's read is returned as the store's error.)
C11_CreateFreshThenGet ==
    [][/\ (last = NoCall /\ last'.op = "Create" /\ last'.err = "") =>
            LET made == Deref(last'.sub)
            IN  /\ made.ID \notin {r.ID : r \in rows}
                /\ rows' = rows \cup {made}
                /\ made.DeletedAt = Nil
       /\ (last.op = "Create" /\ last'.op = "Get" /\ last'.err # ErrStorage) =>
            /\ last'.err = ""
            /\ last'.sub = last.sub
            /\ LET got == Deref(last'.sub)
               IN  /\ got.ServiceName = arg.ServiceName
                   /\ got.Price = arg.Price
                   /\ got.UserID = arg.UserID
                   /\ got.StartDate = MonthOfText(arg.StartDate)
                   /\ got.EndDate = IF arg.EndDate = Nil THEN Nil
                                    ELSE Ptr(MonthOfText(Deref(arg.EndDate)))
    ]_vars

\* a record with an end date was created beside a soft-deleted record and a
\* Get has returned it
C11_Witness ==
    /\ last.op = "Get"
    /\ last.err = ""
    /\ arg.EndDate # Nil
    /\ Deref(last.sub).ID # SeedID
    /\ Deref(last.sub) \in rows
    /\ \E r \in rows : r.ID = SeedID /\ r.DeletedAt # Nil

\* --- C14 ----------------------------------------------------------------

\* C14: the id and the user_id of a record never change after its creation:
\* every step keeps, for each row, a row of the same id and user_id, and a
\* successful Update, also one whose request carries a valid user_id, returns
\* the record under the id and the user_id it was stored with
C14_IdAndUserKept ==
    [][/\ \A r \in rows : \E o \in rows' : o.ID = r.ID /\ o.UserID = r.UserID
       /\ \A o1, o2 \in rows' : o1.ID = o2.ID => o1 = o2
       /\ UpdateSucceeds =>
              /\ Deref(last'.sub).ID = arg.id
              /\ Deref(last'.sub).UserID = Stored(rows).UserID
              /\ Stored(rows').UserID = Stored(rows).UserID]_vars

\* an Update whose request carried another, valid user_id has succeeded
C14_Witness ==
    /\ last.op = "Update"
    /\ last.err = ""
    /\ arg.req.UserID # Nil
    /\ uuidParse(Deref(arg.req.UserID)) # Nil
    /\ HasStored(rows)
    /\ Stored(rows).UserID # Deref(arg.req.UserID)

\* --- C28 ----------------------------------------------------------------

\* C28: an Update that returns an error (malformed id, invalid request,
\* merged end_date before start_date, NotFound, or a failure of the store at
\* the SELECT or at the UPDATE) leaves the table as it was: every row,
\* updated_at included, is the same after the call as before
C28_FailedUpdateChangesNothing ==
    [][(last'.op = "Update" /\ last'.err # "" /\ now' = now) => rows' = rows]_vars

\* an Update of a live record was rejected for its merged dates
C28_Witness ==
    /\ last.op = "Update"
    /\ last.err = ErrValidationError
    /\ last.msg = "subscription end date cannot precede start date"
    /\ Live(rows) # {}

\* --- C20 ----------------------------------------------------------------

\* goroutine p returns from a successful Update in this step
UpdateWritten(p) ==
    /\ proc[p].pc = "write"
    /\ proc'[p].pc = "idle"
    /\ last'.op = "Update"
    /\ last'.err = ""

\* the live row of an id
RowOf(table, id) == CHOOSE r \in Live(table) : r.ID = id

\* C20: every successful Update stores the time of its write as updated_at,
\* which is never earlier than the updated_at the record had, and leaves
\* created_at as it was, in the store and in the record it returns
C20_UpdatedAtAdvances ==
    [][\A p \in Procs : UpdateWritten(p) =>
          LET id     == proc[p].current.ID
              before == RowOf(rows, id)
              after  == RowOf(rows', id)
          IN  /\ after.UpdatedAt = now
              /\ after.UpdatedAt >= before.UpdatedAt
              /\ after.CreatedAt = before.CreatedAt
              /\ Deref(last'.sub).CreatedAt = before.CreatedAt]_vars

\* a record has been updated at least twice, the last time at a later instant
\* than its creation: its name, its price and its start date all differ from
\* what one create request can carry
C20_Witness ==
    /\ last.op = "Update"
    /\ last.err = ""
    /\ \E r \in Live(rows) :
          /\ r.ServiceName = <<"B">>
          /\ r.Price = MaxPrice
          /\ r.StartDate # MonthAt(0)
          /\ r.CreatedAt < r.UpdatedAt
          /\ r.UpdatedAt = now

\* ------------------------------------------------------------------------
\* SpecDelete: records are created while one id, fixed in arg, is deleted
\* again and again
\* ------------------------------------------------------------------------

InitDelete ==
    /\ rows = {}
    /\ now = 0
    /\ proc = [p \in Procs |-> Idle]
    /\ last = NoCall
    /\ arg \in IdPool \cup {SeedID}

NextDelete ==
    \/ Tick
    \/ \E req \in RaceCreateReqs, id \in IdPool, dbFail \in BOOLEAN :
          CreateSubscription(1, req, id, dbFail)
    \/ \E dbFail \in BOOLEAN : DeleteSubscriptionByID(1, arg, dbFail)

SpecDelete == InitDelete /\ [][NextDelete]_vars

\* the step is a Delete of the id in arg that the store answered
DeleteAnswered == last'.op = "Delete" /\ now' = now /\ last'.err # ErrStorage

\* C12: a Delete of an id that has no live record returns NotFound and leaves
\* the table as it was, and the Delete that follows a successful Delete of
\* the same id returns NotFound
C12_DeleteOfAbsentIsNotFound ==
    [][DeleteAnswered =>
          /\ (~ \E r \in Live(rows) : r.ID = arg)
                => (last'.err = ErrNotFound /\ rows' = rows)
          /\ (last.op = "Delete" /\ last.err = "") => last'.err = ErrNotFound]_vars

\* a second Delete of a deleted id has answered NotFound
C12_Witness ==
    /\ last.op = "Delete"
    /\ last.err = ErrNotFound
    /\ \E r \in rows : r.ID = arg /\ r.DeletedAt # Nil

\* ------------------------------------------------------------------------
\* SpecDeleted: goroutine 1 reads and updates the id fixed in arg and runs
\* list and total-cost queries, while goroutine 2 creates and deletes records
\* ------------------------------------------------------------------------

DeletedCreateReqs ==
    {r \in RaceCreateReqs : r.StartDate = BaseCreate.StartDate /\ r.EndDate \in {Nil, Ptr(r.StartDate)}}

\* updates of the name or of the end date, and one the validation rejects
DeletedUpdateReqs ==
    {r \in UpdateReqs :
        /\ r.Price = Nil /\ r.UserID = Nil /\ r.StartDate = Nil
        /\ r.ServiceName \in OptOf({<<>>, <<"B">>})
        /\ r.EndDate \in OptOf({<<>>} \cup MonthTexts)
        /\ Cardinality({f \in {"ServiceName", "EndDate"} : r[f] # Nil}) = 1}

\* list queries with at most one parameter
DeletedListReqs ==
    {r \in ListReqs :
        Cardinality({f \in {"UserID", "ServiceName"} : r[f] # <<>>}
                    \cup {f \in {"Limit", "Offset"} : r[f] # Nil}) <= 1}

DeletedTotalReqs ==
    {r \in TotalReqs :
        /\ r.UserID \in {<<>>, User1}
        /\ r.ServiceName = <<>>
        /\ r.StartDate \in MonthTexts
        /\ r.EndDate \in MonthTexts}

InitDeleted ==
    /\ rows = {}
    /\ now = 0
    /\ proc = [p \in Procs |-> Idle]
    /\ last = NoCall
    /\ arg \in TotalIdPool

NextDeleted ==
    \/ \E dbFail \in BOOLEAN : GetSubscriptionByID(1, arg, dbFail)
    \/ \E req \in DeletedUpdateReqs, dbFail \in BOOLEAN : UpdateRead(1, arg, req, dbFail)
    \/ \E dbFail \in BOOLEAN : UpdateWrite(1, dbFail)
    \/ \E req \in DeletedListReqs, dbFail \in BOOLEAN : ListSubscriptions(1, req, dbFail)
    \/ \E req \in DeletedTotalReqs, dbFail \in BOOLEAN : TotalSubscriptionsCost(1, req, dbFail)
    \/ \E req \in DeletedCreateReqs, id \in TotalIdPool, dbFail \in BOOLEAN :
          CreateSubscription(2, req, id, dbFail)
    \/ \E id \in TotalIdPool, dbFail \in BOOLEAN : DeleteSubscriptionByID(2, id, dbFail)

SpecDeleted == InitDeleted /\ [][NextDeleted]_vars

\* the record of the id in arg is soft-deleted
ArgDeleted == \E r \in rows : r.ID = arg /\ r.DeletedAt # Nil

\* the step returns from a Get, or from an Update, of the id in arg
GetOfArgReturns    == last'.op = "Get" /\ proc' = proc
UpdateOfArgReturns == last'.op = "Update" /\ proc'[1].pc = "idle"

\* C13: once a record is deleted it stays deleted, whatever Create, Update
\* or Delete follows: its row never changes again and no other row takes its
\* id.  From then on a Get of its id returns NotFound, an Update of its id
\* with a request that passes validation returns NotFound, no List returns
\* it, and a total-cost query returns the total of the table without it.
\* (A failure of the store is returned as the store's error.)
C13_DeletedStaysInvisible ==
    [][/\ \A r \in rows : r.DeletedAt # Nil =>
              /\ r \in rows'
              /\ \A o \in rows' : o.ID = r.ID => o = r
       /\ ArgDeleted =>
              /\ (GetOfArgReturns /\ last'.err # ErrStorage) => last'.err = ErrNotFound
              /\ (UpdateOfArgReturns /\ last'.err \notin {ErrStorage, ErrValidationError})
                    => last'.err = ErrNotFound
              /\ (last'.op = "List" /\ last'.err = "")
                    => \A i \in 1..Len(last'.subs) : last'.subs[i].ID # arg
              /\ (last'.op = "TotalCost" /\ last'.err = "")
                    => last'.total =
                         Service_TotalSubscriptionsCost({r \in rows : r.ID # arg},
                                                        last'.req, FALSE).total]_vars

\* an Update of the deleted id has returned NotFound while another record is
\* live
C13_Witness ==
    /\ ArgDeleted
    /\ last.op = "Update"
    /\ last.err = ErrNotFound
    /\ \E r \in Live(rows) : r.ID # arg

\* ------------------------------------------------------------------------
\* SpecList: records are created and deleted as time passes, then one list
\* query runs
\* ------------------------------------------------------------------------

\* create requests of two users and two services
ListCreateReqs ==
    {[BaseCreate EXCEPT !.ServiceName = n, !.UserID = u] :
        n \in {<<"A">>, <<"B">>}, u \in {User1, User2}}

InitList ==
    /\ rows = {}
    /\ now = 0
    /\ proc = [p \in Procs |-> Idle]
    /\ last = NoCall
    /\ arg = Nil

NextList ==
    \/ last.op # "List" /\ Tick
    \/ \E req \in ListCreateReqs, id \in TotalIdPool :
          last.op # "List" /\ CreateSubscription(1, req, id, FALSE)
    \/ \E id \in TotalIdPool :
          last.op # "List" /\ DeleteSubscriptionByID(1, id, FALSE)
    \/ \E req \in ListReqs, dbFail \in BOOLEAN :
          last.op # "List" /\ ListSubscriptions(1, req, dbFail)

SpecList == InitList /\ [][NextList]_vars

\* the records the list query returned, as a set
Listed == {last.subs[i] : i \in 1..Len(last.subs)}

\* the list query names no malformed user id, limit or offset
ValidListQuery ==
    /\ last.req.UserID # NotAUUID
    /\ last.req.Limit # Nil => Deref(last.req.Limit) > 0
    /\ last.req.Offset # Nil => Deref(last.req.Offset) >= 0

\* --- C15 ----------------------------------------------------------------

\* C15: a List without limit and offset returns, each once, exactly the live
\* records that match every filter the query provides (user_id AND
\* service_name), all live records when it provides none, and an empty
\* sequence without an error when no record matches.  (A failure of the
\* store's query is returned as the store's error.)
C15_ListIsMatchingLive ==
    (/\ last.op = "List"
     /\ last.req.UserID # NotAUUID
     /\ last.req.Limit = Nil
     /\ last.req.Offset = Nil
     /\ last.err # ErrStorage) =>
        /\ last.err = ""
        /\ Listed = MatchingLive
        /\ Len(last.subs) = Cardinality(MatchingLive)

\* a query with both filters has returned one of two live records, the other
\* failing one filter only
C15_Witness ==
    /\ last.op = "List"
    /\ last.err = ""
    /\ last.req.UserID # <<>>
    /\ last.req.ServiceName # <<>>
    /\ last.req.Limit = Nil
    /\ last.req.Offset = Nil
    /\ Len(last.subs) = 1
    /\ \E r \in Live(rows) \ Listed :
          r.UserID = last.req.UserID /\ r.ServiceName # last.req.ServiceName

\* --- C16 ----------------------------------------------------------------

\* C16: a List whose limit is <= 0, whose offset is < 0 or whose user_id is
\* malformed fails with ValidationError and returns no record, whether or
\* not the store would answer; a List with a valid limit returns at most
\* limit records
C16_ListValidates ==
    last.op = "List" =>
        /\ ~ ValidListQuery =>
              /\ last.err = ErrValidationError
              /\ last.subs = <<>>
              /\ \A dbFail \in BOOLEAN :
                    Service_ListSubscriptions(rows, last.req, dbFail).err = ErrValidationError
        /\ (last.err = "" /\ last.req.Limit # Nil) =>
              Len(last.subs) <= Deref(last.req.Limit)

\* a List with limit 0 over a table with live records was rejected
C16_Witness ==
    /\ last.op = "List"
    /\ last.req.Limit = Ptr(0)
    /\ last.req.UserID = <<>>
    /\ last.req.Offset = Nil
    /\ last.err = ErrValidationError
    /\ Cardinality(Live(rows)) = MaxTotalSubs

\* --- C17 ----------------------------------------------------------------

\* r comes before o in the order created_at descending, then id descending
Precedes(r, o) ==
    \/ r.CreatedAt > o.CreatedAt
    \/ r.CreatedAt = o.CreatedAt /\ uuidLess(o.ID, r.ID)

\* C17: a List returns its records ordered by created_at descending and, for
\* equal created_at, by id descending; the order is total, so the record at
\* place i of a page is the one that offset + i - 1 matching live records
\* precede, on every call
C17_ListOrdered ==
    (last.op = "List" /\ last.err = "") =>
        LET off == IF last.req.Offset # Nil THEN Deref(last.req.Offset) ELSE 0
        IN  /\ \A i, j \in 1..Len(last.subs) :
                  i < j => Precedes(last.subs[i], last.subs[j])
            /\ \A i \in 1..Len(last.subs) :
                  /\ last.subs[i] \in MatchingLive
                  /\ Cardinality({r \in MatchingLive : Precedes(r, last.subs[i])})
                        = off + i - 1

\* a List has returned two records created at the same instant, the one with
\* the greater id first
C17_Witness ==
    /\ last.op = "List"
    /\ last.err = ""
    /\ Len(last.subs) = 2
    /\ last.subs[1].CreatedAt = last.subs[2].CreatedAt
    /\ uuidLess(last.subs[2].ID, last.subs[1].ID)

\* --- C18 ----------------------------------------------------------------

\* the total-cost query that returned has a missing or malformed date, an
\* end before its start, or a user id that is not a uuid
InvalidTotalQuery ==
    \/ last.req.StartDate \notin MonthTexts
    \/ last.req.EndDate \notin MonthTexts
    \/ /\ last.req.StartDate \in MonthTexts
       /\ last.req.EndDate \in MonthTexts
       /\ MonthIndex(MonthOfText(last.req.EndDate)) < MonthIndex(MonthOfText(last.req.StartDate))
    \/ last.req.UserID = NotAUUID

\* C18: TotalSubscriptionsCost with a missing or malformed start_date or
\* end_date, with an end_date before the start_date, or with a user_id that
\* is not a well-formed id fails with ValidationError and no total, and the
\* controller answers it with 400 and an error body
C18_TotalRejectsBadQuery ==
    (last.op = "TotalCost" /\ InvalidTotalQuery) =>
        /\ last.err = ErrValidationError
        /\ last.total = 0
        /\ Controller_TotalSubscriptionsCost(last).status = 400
        /\ Controller_TotalSubscriptionsCost(last).body = "error"

\* a query whose window ends before it starts was rejected over a table with
\* a live record
C18_Witness ==
    /\ last.op = "TotalCost"
    /\ last.err = ErrValidationError
    /\ last.req.StartDate \in MonthTexts
    /\ last.req.EndDate \in MonthTexts
    /\ last.req.StartDate # last.req.EndDate
    /\ last.req.UserID = User1
    /\ Live(rows) # {}

\* ------------------------------------------------------------------------
\* SpecHTTP: requests arrive at the controllers one at a time; each is bound,
\* handed to the service and answered
\* ------------------------------------------------------------------------

HTTPUpdateReqs ==
    {r \in UpdateReqs :
        /\ r.ServiceName \in {Ptr(<<>>), Ptr(<<"B">>)}
        /\ r.Price = Nil /\ r.UserID = Nil /\ r.StartDate = Nil /\ r.EndDate = Nil}

HTTPListReqs ==
    {r \in ListReqs :
        /\ r.UserID = <<>> /\ r.ServiceName = <<>> /\ r.Offset = Nil
        /\ r.Limit \in {Nil, Ptr(0)}}

HTTPTotalReqs ==
    {r \in TotalReqs :
        /\ r.UserID = <<>> /\ r.ServiceName = <<>>
        /\ r.StartDate \in {<<>>, BaseCreate.StartDate}
        /\ r.EndDate = BaseCreate.StartDate}

InitHTTP ==
    /\ rows = {}
    /\ now = 0
    /\ proc = [p \in Procs |-> Idle]
    /\ last = NoCall
    /\ arg = Nil

NextHTTP ==
    \/ Respond
    \/ \E f \in {<<"Create", "ErrBadJSON">>, <<"Get", "ErrBadParam">>,
                  <<"Update", "ErrBadParam">>, <<"Update", "ErrBadJSON">>,
                  <<"Delete", "ErrBadParam">>, <<"List", "bind">>, <<"TotalCost", "bind">>} :
          Answered /\ BindFails(1, f[1], f[2])
    \/ \E req \in {BaseCreate, [BaseCreate EXCEPT !.ServiceName = <<>>]},
             id \in IdPool, dbFail \in BOOLEAN :
          Answered /\ CreateSubscription(1, req, id, dbFail)
    \/ \E idText \in IdTexts, dbFail \in BOOLEAN :
          Answered /\ GetSubscriptionByID(1, idText, dbFail)
    \/ \E idText \in IdTexts, req \in HTTPUpdateReqs, dbFail \in BOOLEAN :
          Answered /\ UpdateRead(1, idText, req, dbFail)
    \/ \E dbFail \in BOOLEAN : UpdateWrite(1, dbFail)
    \/ \E idText \in IdTexts, dbFail \in BOOLEAN :
          Answered /\ DeleteSubscriptionByID(1, idText, dbFail)
    \/ \E req \in HTTPListReqs, dbFail \in BOOLEAN :
          Answered /\ ListSubscriptions(1, req, dbFail)
    \/ \E req \in HTTPTotalReqs, dbFail \in BOOLEAN :
          Answered /\ TotalSubscriptionsCost(1, req, dbFail)

SpecHTTP == InitHTTP /\ [][NextHTTP]_vars

\* --- C19 ----------------------------------------------------------------

\* C19: at every endpoint the response written for a service error is 400
\* for a ValidationError, 404 for NotFound and, for any other error, 500
\* with the body "Internal server error" and not the text of the error; no
\* service error is answered with 200 or 201
C19_ErrorsMapToStatus ==
    [][arg' # arg =>
          LET r == Deref(arg')
          IN  /\ last.op \in {"Create", "Get", "Update", "Delete", "List", "TotalCost"}
              /\ last.err = ErrValidationError => r.status = 400
              /\ last.err = ErrNotFound => r.status = 404
              /\ last.err \notin {"", ErrValidationError, ErrNotFound, ErrBind} =>
                    /\ r.status = 500
                    /\ r.error = <<"Internal server error">>
                    /\ r.error # ErrorText(last)
              /\ last.err # "" => r.status \notin {200, 201}
              /\ last.err = "" => r.status \in {200, 201}]_vars

\* the store failed under the UPDATE of an Update and the response is 500
C19_Witness ==
    /\ last.op = "Update"
    /\ last.err = ErrStorage
    /\ Live(rows) # {}
    /\ arg # Nil
    /\ Deref(arg).status = 500

\* ------------------------------------------------------------------------
\* SpecDates: one text is parsed by String2Date, the value is formatted with
\* Layout, and the formatted text is parsed again
\* ------------------------------------------------------------------------

\* the texts handed to String2Date: two characters where a month is
\* expected, a separator and characters where a year is expected, in either
\* order, inside padding
DateTexts ==
    LET MonthParts ==
            {<<a, b>> : a \in {"0", "1", "2", "a"}, b \in {"0", "1", "2", "3", "9", "b"}}
            \cup {<<"1">>, <<>>}
        YearParts ==
            {<<"2", "0", "2", "4">>, <<"0", "0", "0", "0">>, <<"0", "9", "9", "9">>,
             <<"9", "9", "9", "9">>, <<"2", "4">>, <<"2", "0", "2", "4", "5">>,
             <<"2", "a", "2", "4">>, <<"c", "d", "e", "f">>, <<"2", "0", "2", "4", "x">>, <<>>}
        Separators == {<<"-">>, <<"/">>, <<" ", "-">>, <<>>}
        Paddings == {<<>>, <<" ">>, <<"\t">>, <<" ", "\n">>}
    IN  {l \o m \o sep \o y \o r :
            l \in Paddings, m \in MonthParts, sep \in Separators, y \in YearParts,
            r \in Paddings}
        \cup {l \o y \o sep \o m \o r :
            l \in Paddings, m \in MonthParts, sep \in {<<"-">>}, y \in YearParts,
            r \in {<<>>}}

InitDates ==
    /\ rows = {}
    /\ now = 0
    /\ proc = [p \in Procs |-> Idle]
    /\ last = NoCall
    /\ arg \in DateTexts

\* t, err := dates.String2Date(arg)
ParseDate ==
    /\ last = NoCall
    /\ last' = [op |-> "String2Date", t |-> String2Date(arg).t, err |-> String2Date(arg).err]
    /\ UNCHANGED <<rows, now, proc, arg>>

\* t.Format(dates.Layout)
FormatDate ==
    /\ last.op = "String2Date"
    /\ last.err = ""
    /\ last' = [op |-> "Format", t |-> last.t, text |-> Format(last.t)]
    /\ UNCHANGED <<rows, now, proc, arg>>

\* dates.String2Date of the formatted text
ParseFormatted ==
    /\ last.op = "Format"
    /\ last' = [op |-> "Reparse", t |-> String2Date(last.text).t,
                err |-> String2Date(last.text).err, first |-> last.t]
    /\ UNCHANGED <<rows, now, proc, arg>>

NextDates == ParseDate \/ FormatDate \/ ParseFormatted

SpecDates == InitDates /\ [][NextDates]_vars

\* the two-character texts 01..12
MonthNumerals ==
    {<<"0", d>> : d \in {"1", "2", "3", "4", "5", "6", "7", "8", "9"}}
    \cup {<<"1", d>> : d \in {"0", "1", "2"}}

\* s is a two-digit month 01..12, a hyphen and four digits
IsMonthYear(s) ==
    /\ Len(s) = 7
    /\ SubSeq(s, 1, 2) \in MonthNumerals
    /\ s[3] = "-"
    /\ \A i \in 4..7 : s[i] \in {"0", "1", "2", "3", "4", "5", "6", "7", "8", "9"}

\* s is whitespace, then a text c, then whitespace
Surrounds(s, c) ==
    \E a \in 0..Len(s) :
        /\ a + Len(c) <= Len(s)
        /\ SubSeq(s, a + 1, a + Len(c)) = c
        /\ \A i \in (1..a) \cup ((a + Len(c) + 1)..Len(s)) : s[i] \in {" ", "\t", "\n", "\r"}

\* the MM-YYYY text inside the padding of s, when there is one
CoreOf(s) == CHOOSE c \in {SubSeq(s, i, i + 6) : i \in 1..(Len(s) - 6)} :
                IsMonthYear(c) /\ Surrounds(s, c)

ValidDateText(s) ==
    \E c \in {SubSeq(s, i, i + 6) : i \in 1..(Len(s) - 6)} : IsMonthYear(c) /\ Surrounds(s, c)

\* the number a text of digits writes
RECURSIVE Numeral(_)
Numeral(s) ==
    IF s = <<>> THEN 0
    ELSE Numeral(SubSeq(s, 1, Len(s) - 1)) * 10
         + (CHOOSE n \in 0..9 : DigitChars[n + 1] = s[Len(s)])

\* --- C21 ----------------------------------------------------------------

C22_FormatParseRoundTrip ==
    /\ (last.op = "String2Date" /\ last.err = "") => Format(last.t) = CoreOf(arg)
    /\ last.op = "Format" => last.text = CoreOf(arg)
    /\ last.op = "Reparse" => (last.err = "" /\ last.t = last.first)

\* a padded text of a one-digit month and a year below 1000 has gone through
\* parse, format and parse
C22_Witness ==
    /\ last.op = "Reparse"
    /\ last.err = ""
    /\ Len(arg) > 7
    /\ last.t.month < 10
    /\ last.t.year = 999

\* ------------------------------------------------------------------------
\* SpecCreates: every goroutine serves one Create, its request fixed in arg;
\* the steps of the goroutines interleave
\* ------------------------------------------------------------------------

\* every goroutine has a valid create request, of either service and any price
InitCreates ==
    /\ rows \in SeedStores
    /\ now = 0
    /\ proc = [p \in Procs |-> Idle]
    /\ last = NoCall
    /\ arg \in [Procs -> {[BaseCreate EXCEPT !.ServiceName = n, !.Price = q] :
                              n \in {<<"A">>, <<"B">>}, q \in 1..MaxPrice}]

\* CreateSubscription with every goroutine building the first request
CreateBuild_SharedRequest(p, id) ==
    LET r == Service_BuildSubscription(arg[1], id, now)
    IN  /\ proc[p].pc = "idle"
        /\ proc' = [proc EXCEPT ![p] =
                       IF r.err = "" THEN [pc |-> "insert", sub |-> Deref(r.sub)]
                       ELSE [pc |-> "done", sub |-> Nil, err |-> r.err]]
        /\ UNCHANGED <<rows, now, last, arg>>

\* CreateSubscription up to the store call: Validate, ParseDates, uuid.New()
\* and time.Now(), all on the goroutine's own request
CreateBuild(p, id) ==
    LET r == Service_BuildSubscription(arg[p], id, now)
    IN  /\ proc[p].pc = "idle"
        /\ proc' = [proc EXCEPT ![p] =
                       IF r.err = "" THEN [pc |-> "insert", sub |-> Deref(r.sub)]
                       ELSE [pc |-> "done", sub |-> Nil, err |-> r.err]]
        /\ UNCHANGED <<rows, now, last, arg>>

\* CreateSubscription from the store's INSERT to the return
CreateInsert(p) ==
    LET sub == proc[p].sub
        w   == Storage_CreateSubscription(rows, sub)
    IN  /\ proc[p].pc = "insert"
        /\ rows' = w.table
        /\ proc' = [proc EXCEPT ![p] =
                       [pc |-> "done", sub |-> sub, err |-> IF w.ok THEN "" ELSE ErrStorage]]
        /\ last' = IF w.ok THEN [op |-> "Create", err |-> "", msg |-> "", sub |-> Ptr(sub)]
                   ELSE Returned("Create", Failure(ErrStorage, "db"))
        /\ UNCHANGED <<now, arg>>

NextCreates ==
    \/ Tick
    \/ \E p \in Procs :
          \/ \E id \in TotalIdPool : CreateBuild(p, id)
          \/ CreateInsert(p)

SpecCreates == InitCreates /\ [][NextCreates]_vars

\* every goroutine has returned from its Create
AllCreated == \A p \in Procs : proc[p].pc = "done"

\* uuid.New() gave every goroutine an id of its own
DistinctDraws == \A p, q \in Procs : p # q => proc[p].sub.ID # proc[q].sub.ID

\* the record carries the fields of the request
Carries(sub, req) ==
    /\ sub.ServiceName = req.ServiceName
    /\ sub.Price = req.Price
    /\ sub.UserID = req.UserID
    /\ Format(sub.StartDate) = req.StartDate
    /\ sub.EndDate = Nil
    /\ sub.DeletedAt = Nil

\* --- C23 ----------------------------------------------------------------

\* C23: concurrent Creates are independent.  Whatever the order of their
\* steps, a Create that has returned success has its record in the table,
\* with the fields of its own request, under an id no other row has; once
\* all have returned, and uuid.New() gave them different ids, all have
\* succeeded and the table holds the records it held before and one more per
\* Create
C23_ConcurrentCreatesIndependent ==
    /\ \A p \in Procs : (proc[p].pc = "done" /\ proc[p].err = "") =>
          /\ proc[p].sub \in rows
          /\ Carries(proc[p].sub, arg[p])
          /\ \A r \in rows : r.ID = proc[p].sub.ID => r = proc[p].sub
    /\ (AllCreated /\ DistinctDraws) =>
          /\ \A p \in Procs : proc[p].err = ""
          /\ {r \in rows : r.ID = SeedID} \in SeedStores
          /\ {r \in rows : r.ID # SeedID} = {proc[p].sub : p \in Procs}
          /\ Cardinality({r \in rows : r.ID # SeedID}) = Cardinality(Procs)

\* two Creates with different requests, built before either inserted, have
\* both returned
C23_Witness ==
    /\ AllCreated
    /\ \A p \in Procs : proc[p].err = ""
    /\ arg[1] # arg[2]
    /\ proc[1].sub.CreatedAt = proc[2].sub.CreatedAt
    /\ now > proc[1].sub.CreatedAt
    /\ SeedRow \in rows

\* ------------------------------------------------------------------------
\* SpecUpdates: every goroutine serves one Update of the same record, its
\* request fixed in arg, and may delete the record before; the steps of the
\* goroutines interleave
\* ------------------------------------------------------------------------

\* one record, with or without end_date; every goroutine has a valid update
\* request that names any of the name, the price and the dates
InitUpdates ==
    /\ rows \in {{SeedRow}, {[SeedRow EXCEPT !.EndDate = Ptr(MonthAt(MaxMonth))]}}
    /\ now = 0
    /\ proc = [p \in Procs |-> Idle]
    /\ last = NoCall
    /\ arg \in [Procs -> {r \in UpdateReqs :
                              /\ r.ServiceName \in OptOf({<<"B">>})
                              /\ r.Price \in OptOf({MaxPrice})
                              /\ r.UserID = Nil
                              /\ r.StartDate \in OptOf(MonthTexts)
                              /\ r.EndDate \in OptOf({<<>>} \cup MonthTexts)}]

\* UpdateSubscriptionByID of the record SeedID up to the store's UPDATE: the
\* SELECT, the merge of the goroutine's request and its check; base is the
\* row the SELECT returned
UpdateSelect(p) ==
    LET r == Service_PrepareUpdate(rows, SeedID, arg[p], now, FALSE)
    IN  /\ proc[p].pc = "idle"
        /\ proc' = [proc EXCEPT ![p] =
                       IF r.err = ""
                       THEN [pc |-> "write", current |-> Deref(r.sub),
                             base |-> Deref(Storage_GetSubscriptionByID(rows, SeedID))]
                       ELSE [pc |-> "done", err |-> r.err]]
        /\ last' = IF r.err = "" THEN last ELSE Returned("Update", r)
        /\ UNCHANGED <<rows, now, arg>>

\* UpdateSubscriptionByID from the store's UPDATE to the return
UpdateCommit(p) ==
    LET current == proc[p].current
        w == Storage_UpdateSubscriptionByID(rows, current, now)
    IN  /\ proc[p].pc = "write"
        /\ rows' = w.table
        /\ proc' = [proc EXCEPT ![p] =
                       [pc |-> "done", base |-> proc[p].base,
                        err |-> IF w.rowsAffected = 0 THEN ErrNotFound ELSE ""]]
        /\ last' = IF w.rowsAffected = 0
                   THEN Returned("Update", Failure(ErrNotFound, "Subscription not found"))
                   ELSE [op |-> "Update", err |-> "", msg |-> "", sub |-> Ptr(current)]
        /\ UNCHANGED <<now, arg>>

NextUpdates ==
    \/ Tick
    \/ \E p \in Procs : UpdateSelect(p) \/ UpdateCommit(p)
    \/ \E p \in Procs : DeleteSubscriptionByID(p, SeedID, FALSE)

SpecUpdates == InitUpdates /\ [][NextUpdates]_vars

\* service_name, price, start_date and end_date of a record
Payload(r) == <<r.ServiceName, r.Price, r.StartDate, r.EndDate>>

\* the request's fields laid over a record: the named ones from the request,
\* the others from the record
Overlay(r, req) ==
    << IF req.ServiceName # Nil THEN Deref(req.ServiceName) ELSE r.ServiceName,
       IF req.Price # Nil THEN Deref(req.Price) ELSE r.Price,
       IF req.StartDate # Nil THEN MonthOfText(Deref(req.StartDate)) ELSE r.StartDate,
       IF req.EndDate = Nil THEN r.EndDate
       ELSE IF Deref(req.EndDate) = <<>> THEN Nil
       ELSE Ptr(MonthOfText(Deref(req.EndDate))) >>

\* goroutine p has written, from the row both goroutines read at the start
WroteFromFirstRow(p) ==
    /\ proc[p].pc = "done"
    /\ proc[p].err = ""
    /\ proc[p].base.UpdatedAt = 0
    /\ Payload(proc[p].base) \in {Payload(SeedRow),
                                  Payload([SeedRow EXCEPT !.EndDate = Ptr(MonthAt(MaxMonth))])}

\* --- C24 ----------------------------------------------------------------

\* C24: after an Update has written, the stored service_name, price,
\* start_date and end_date are entirely those of the merged record of the
\* Update that wrote last.  When two Updates of one id both read the record
\* before either wrote, the stored record is therefore the row they read
\* overlaid with the request of one of them, the fields that request does
\* not name included, and never a mix of the two requests
C24_LastWriteWinsWhole ==
    /\ (last.op = "Update" /\ last.err = "") =>
          \A r \in Live(rows) : Payload(r) = Payload(Deref(last.sub))
    /\ (\A p \in Procs : WroteFromFirstRow(p) /\ proc[p].base = proc[1].base) =>
          \A r \in Live(rows) :
             \E p \in Procs : Payload(r) = Overlay(proc[p].base, arg[p])

\* both Updates read the record before either wrote, one named only the
\* service, the other only the end date, and the stored record has the old
\* service name again
C24_Witness ==
    /\ \A p \in Procs : WroteFromFirstRow(p) /\ proc[p].base = proc[1].base
    /\ \E p, q \in Procs :
          /\ arg[p].ServiceName # Nil /\ arg[p].EndDate = Nil
          /\ arg[q].ServiceName = Nil /\ arg[q].EndDate # Nil
          /\ arg[p].Price = Nil /\ arg[q].Price = Nil
          /\ \A r \in Live(rows) :
                /\ r.ServiceName = proc[1].base.ServiceName
                /\ r.EndDate # proc[1].base.EndDate

\* --- C27 ----------------------------------------------------------------

\* goroutine p returns from the store's UPDATE in this step
CommitReturns(p) == proc[p].pc = "write" /\ proc'[p].pc = "done"

\* C27: an Update that races with a Delete of its id never brings the record
\* back.  When the Delete has committed after the Update read the record and
\* before the Update writes, the write changes no row and the Update returns
\* NotFound; a deleted row stays in the table as it is through every step
C27_UpdateAfterDeleteIsNotFound ==
    [][/\ \A r \in rows : r.DeletedAt # Nil => r \in rows'
       /\ \A p \in Procs :
             (CommitReturns(p) /\ Live(rows) = {}) =>
                 /\ proc'[p].err = ErrNotFound
                 /\ last'.op = "Update"
                 /\ last'.err = ErrNotFound
                 /\ rows' = rows]_vars

\* an Update that named a new service has read the record, then found it
\* deleted at its write; the deleted row has the fields the Update read
C27_Witness ==
    \E p \in Procs :
        /\ proc[p].pc = "done"
        /\ proc[p].err = ErrNotFound
        /\ "base" \in DOMAIN proc[p]
        /\ arg[p].ServiceName # Nil
        /\ Live(rows) = {}
        /\ \A r \in rows : r.DeletedAt # Nil /\ Payload(r) = Payload(proc[p].base)

\* ------------------------------------------------------------------------
\* SpecAggregate: over one table, the query of arg is answered by the
\* service's loop over the listed records and by the store's aggregate
\* ------------------------------------------------------------------------

\* tables of up to two records of two users, with end_date absent or not
\* before start_date, and perhaps a deleted record; the first record is of
\* either service and price, the second of service A at the price MaxPrice
InitAggregate ==
    LET AggregateStores ==
            LET AggregateMonthTexts == {Format(MonthAt(i)) : i \in 0..(MaxMonth + 1)}
                reqs == {r \in [ServiceName : {<<"A">>, <<"B">>},
                                Price       : {1, MaxPrice},
                                UserID      : {User1, User2},
                                StartDate   : AggregateMonthTexts,
                                EndDate     : OptOf(AggregateMonthTexts)] :
                            CreateSubscriptionRequest_ParseDates(r).err = ""}
                made(id) == {Deref(Service_BuildSubscription(req, id, 0).sub) : req \in reqs}
                gone(id) == Storage_DeleteSubscriptionByID(
                                {Deref(Service_BuildSubscription(BaseCreate, id, 0).sub)}, id, 0).table
                choices(id) == {{}, gone(id)} \cup {{r} : r \in made(id)}
            IN  {T1 \cup T2 : T1 \in choices(NewUUID(1)),
                              T2 \in {T \in choices(NewUUID(2)) :
                                         \A r \in T : r.ServiceName = <<"A">> /\ r.Price = MaxPrice}}
    IN  /\ rows \in AggregateStores
        /\ now = 0
        /\ proc = [p \in Procs |-> Idle]
        /\ last = NoCall
        /\ arg \in {r \in [UserID      : {<<>>, User1},
                            ServiceName : {<<>>, <<"A">>},
                            StartDate   : {Format(MonthAt(i)) : i \in 0..(MaxMonth + 1)},
                            EndDate     : {Format(MonthAt(i)) : i \in 0..(MaxMonth + 1)}] :
                      ~Before(String2Date(r.EndDate).t, String2Date(r.StartDate).t)}

\* the store's TotalSubscriptionsCost for the filter and the window that the
\* service derives from the query
AggregateInStore ==
    LET filter == [UserID      |-> IF arg.UserID # <<>> THEN uuidParse(arg.UserID) ELSE Nil,
                   ServiceName |-> IF arg.ServiceName # <<>>
                                   THEN Ptr(arg.ServiceName) ELSE Nil,
                   Limit       |-> Nil,
                   Offset      |-> Nil]
        total == Storage_TotalSubscriptionsCost(rows, filter, String2Date(arg.StartDate).t,
                                                String2Date(arg.EndDate).t)
    IN  /\ proc[2] = Idle
        /\ proc' = [proc EXCEPT ![2] = [pc |-> "done", total |-> total, err |-> ""]]
        /\ UNCHANGED <<rows, now, last, arg>>

NextAggregate ==
    \/ last = NoCall /\ TotalSubscriptionsCost(1, arg, FALSE)
    \/ AggregateInStore

SpecAggregate == InitAggregate /\ [][NextAggregate]_vars

\* --- C26 ----------------------------------------------------------------

\* C26: for live records with start_date <= end_date, a valid window and any
\* filter, the store's set-based TotalSubscriptionsCost returns the total that
\* the service gets by summing calculateSubscriptionCost over the records
\* that ListSubscriptions returns for the same filter
C26_AggregateEqualsSum ==
    (last.op = "TotalCost" /\ proc[2].pc = "done") =>
        /\ last.err = ""
        /\ proc[2].err = ""
        /\ proc[2].total = last.total

\* both totals were taken over two live records, one that ends inside the
\* window and one without end_date that starts inside it, and a filter that
\* passes both
C26_Witness ==
    /\ last.op = "TotalCost"
    /\ proc[2].pc = "done"
    /\ proc[2].total > 0
    /\ arg.UserID = User1
    /\ \E r1, r2 \in Live(rows) :
          /\ r1.UserID = User1 /\ r2.UserID = User1
          /\ r1.EndDate # Nil
          /\ Before(String2Date(arg.StartDate).t, r1.StartDate) = FALSE
          /\ Before(Deref(r1.EndDate), String2Date(arg.EndDate).t)
          /\ r2.EndDate = Nil
          /\ After(r2.StartDate, String2Date(arg.StartDate).t)

\* ------------------------------------------------------------------------
\* SpecPages: over a table that does not change, a client lists everything
\* with the filter of arg, then lists page after page with arg's limit until
\* a page comes back empty
\* ------------------------------------------------------------------------

\* tables with at most one row per id, each row created at some instant by
\* some request and perhaps deleted
InitPages ==
    LET PageStores ==
            LET PageIds == TotalIdPool \cup {SeedID}
                made(id) == {Deref(Service_BuildSubscription(req, id, t).sub) :
                                req \in ListCreateReqs, t \in 0..MaxTime}
                PageRows(id) ==
                    made(id) \cup UNION {Storage_DeleteSubscriptionByID({r}, id, MaxTime).table :
                        r \in {m \in made(id) : m.ServiceName = <<"A">> /\ m.UserID = User1}}
                choices == {{}} \cup {{r} : r \in UNION {PageRows(id) : id \in PageIds}}
            IN  {UNION {f[id] : id \in PageIds} :
                    f \in {g \in [PageIds -> choices] :
                             \A id \in PageIds : g[id] \subseteq PageRows(id)}}
    IN  /\ rows \in PageStores
        /\ now = MaxTime
        /\ proc = [p \in Procs |-> Idle]
        /\ last = NoCall
        /\ arg \in {r \in ListReqs :
                      /\ r.UserID # NotAUUID
                      /\ r.Limit # Nil /\ Deref(r.Limit) > 0
                      /\ r.Offset = Nil}

\* ListSubscriptions with the filter alone
ListAll ==
    LET r == Service_ListSubscriptions(rows, [arg EXCEPT !.Limit = Nil], FALSE)
    IN  /\ last = NoCall
        /\ last' = [op |-> "Pages", err |-> r.err, all |-> r.subs, pages |-> <<>>,
                    more |-> TRUE]
        /\ UNCHANGED <<rows, now, proc, arg>>

\* ListSubscriptions with the filter, the limit and the next offset
ListPage ==
    LET offset == Deref(arg.Limit) * Len(last.pages)
        r == Service_ListSubscriptions(rows, [arg EXCEPT !.Offset = Ptr(offset)], FALSE)
    IN  /\ last.op = "Pages"
        /\ last.more
        /\ last' = [last EXCEPT !.err = r.err,
                                !.pages = Append(@, r.subs),
                                !.more = (r.subs # <<>>)]
        /\ UNCHANGED <<rows, now, proc, arg>>

NextPages == ListAll \/ ListPage

SpecPages == InitPages /\ [][NextPages]_vars

\* the pages one after the other
RECURSIVE Concat(_)
Concat(pages) == IF pages = <<>> THEN <<>> ELSE Head(pages) \o Concat(Tail(pages))

\* --- C29 ----------------------------------------------------------------

\* C29: over fixed store contents and a fixed filter, the pages that List
\* returns for a limit n > 0 and the offsets 0, n, 2n, ... are pairwise
\* disjoint, and one after the other they are the unpaginated List result in
\* its order: every page fetched so far continues it, and when a page comes
\* back empty nothing is missing
C29_PagesPartitionTheList ==
    last.op = "Pages" =>
        /\ last.err = ""
        /\ \A i, j \in 1..Len(last.pages) : i # j =>
              \A a \in 1..Len(last.pages[i]), b \in 1..Len(last.pages[j]) :
                  last.pages[i][a] # last.pages[j][b]
        /\ Len(Concat(last.pages)) <= Len(last.all)
        /\ Concat(last.pages) = SubSeq(last.all, 1, Len(Concat(last.pages)))
        /\ ~ last.more => Concat(last.pages) = last.all

\* three matching records were listed in pages of two: a full page, a page
\* of one, and an empty page
C29_Witness ==
    /\ last.op = "Pages"
    /\ ~ last.more
    /\ Len(last.all) = 3
    /\ Len(last.pages) = 3
    /\ Len(last.pages[1]) = 2
    /\ Len(last.pages[2]) = 1

\* ------------------------------------------------------------------------
\* SpecGin: graceful.RunGin. proc[1] is the caller of RunGin, proc[2] the
\* goroutine that runs ListenAndServe; arg is errCh, rows the requests in
\* flight, now the time since Shutdown was called
\* ------------------------------------------------------------------------

\* make(chan error, 1)
errChCap == 1

ErrServerClosed == "http: Server closed"

ErrListen == "listen: address already in use"

DeadlineExceeded == "context deadline exceeded"

InitGin ==
    /\ rows \in SUBSET (1..MaxInFlight)
    /\ now = 0
    /\ proc = [p \in Procs |-> IF p = 1 THEN [pc |-> "select"] ELSE [pc |-> "serve"]]
    /\ \E d \in 0..MaxTime :
          last = [op |-> "RunGin", shutdownTimeout |-> d, signal |-> FALSE,
                  shutdown |-> "", ret |-> Nil]
    /\ arg = <<>>

\* errCh <- err on a channel without buffer: the send completes only with a
\* receiver waiting
Send_Unbuffered ==
    /\ proc[2].pc = "send"
    /\ proc[1].pc \in {"select", "receive"}
    /\ arg = <<>>
    /\ arg' = <<proc[2].err>>
    /\ proc' = [proc EXCEPT ![2].pc = "exit"]
    /\ UNCHANGED <<rows, now, last>>

\* Shutdown with a context that has no deadline
Shutdown_NoDeadline ==
    /\ proc[1].pc = "shutdown"
    /\ rows = {}
    /\ last' = [last EXCEPT !.shutdown = "nil"]
    /\ proc' = [proc EXCEPT ![1].pc = "receive"]
    /\ UNCHANGED <<rows, now, arg>>

\* server.ListenAndServe() returns: ErrServerClosed once Shutdown has been
\* called, an error of the listener before that; early tells that no signal
\* had arrived
ListenAndServe ==
    /\ proc[2].pc = "serve"
    /\ proc' = [proc EXCEPT ![2] =
                    [pc    |-> "send",
                     err   |-> IF last.shutdown # "" THEN ErrServerClosed ELSE ErrListen,
                     early |-> ~last.signal]]
    /\ UNCHANGED <<rows, now, last, arg>>

\* errCh <- err
Send ==
    /\ proc[2].pc = "send"
    /\ Len(arg) < errChCap
    /\ arg' = Append(arg, proc[2].err)
    /\ proc' = [proc EXCEPT ![2].pc = "exit"]
    /\ UNCHANGED <<rows, now, last>>

\* SIGINT or SIGTERM: ctx is done
Signal ==
    /\ ~last.signal
    /\ last' = [last EXCEPT !.signal = TRUE]
    /\ UNCHANGED <<rows, now, proc, arg>>

\* what RunGin returns for the listener's result
ListenerResult(err) == IF err # ErrServerClosed THEN Ptr(err) ELSE Ptr("")

\* the select: either case that can proceed; the first returns, the second
\* goes on to call Shutdown
Select ==
    /\ proc[1].pc = "select"
    /\ \/ /\ arg # <<>>
          /\ arg' = Tail(arg)
          /\ last' = [last EXCEPT !.ret = ListenerResult(Head(arg))]
          /\ proc' = [proc EXCEPT ![1].pc = "returned"]
       \/ /\ last.signal
          /\ last' = [last EXCEPT !.shutdown = "called"]
          /\ proc' = [proc EXCEPT ![1].pc = "shutdown"]
          /\ UNCHANGED arg
    /\ UNCHANGED <<rows, now>>

\* a request in flight finishes; one that has not finished when the grace
\* period is over is cut off
Finish ==
    /\ proc[1].pc \in {"select", "shutdown"}
    /\ proc[1].pc = "shutdown" => now < last.shutdownTimeout
    /\ \E r \in rows : rows' = rows \ {r}
    /\ UNCHANGED <<now, proc, last, arg>>

\* server.Shutdown(shutdownCtx) returns: nil with no request in flight, the
\* context's error when the deadline has passed
Shutdown ==
    /\ proc[1].pc = "shutdown"
    /\ IF rows = {}
       THEN /\ last' = [last EXCEPT !.shutdown = "nil"]
            /\ proc' = [proc EXCEPT ![1].pc = "receive"]
       ELSE /\ now >= last.shutdownTimeout
            /\ last' = [last EXCEPT !.shutdown = DeadlineExceeded,
                                    !.ret = Ptr(DeadlineExceeded)]
            /\ proc' = [proc EXCEPT ![1].pc = "returned"]
    /\ UNCHANGED <<rows, now, arg>>

\* err := <-errCh after Shutdown
Receive ==
    /\ proc[1].pc = "receive"
    /\ arg # <<>>
    /\ arg' = Tail(arg)
    /\ last' = [last EXCEPT !.ret = ListenerResult(Head(arg))]
    /\ proc' = [proc EXCEPT ![1].pc = "returned"]
    /\ UNCHANGED <<rows, now>>

NextGin ==
    \/ ListenAndServe
    \/ Send
    \/ Signal
    \/ Select
    \/ Finish
    \/ proc[1].pc = "shutdown" /\ now < last.shutdownTimeout /\ Tick
    \/ Shutdown
    \/ Receive

SpecGin == InitGin /\ [][NextGin]_vars

\* the caller and the goroutine keep running, the grace period runs out, and
\* ListenAndServe returns once Shutdown has been called; nothing makes a
\* signal arrive, a listener fail or a request finish
FairGin ==
    /\ SpecGin
    /\ WF_vars(Select)
    /\ WF_vars(Shutdown)
    /\ WF_vars(Receive)
    /\ WF_vars(Send)
    /\ WF_vars(proc[1].pc = "shutdown" /\ now < last.shutdownTimeout /\ Tick)
    /\ WF_vars(last.shutdown # "" /\ ListenAndServe)

\* --- C25 ----------------------------------------------------------------

\* the listener's result is known and no signal had arrived when
\* ListenAndServe returned
ListenerFailedFirst == proc[2].pc # "serve" /\ proc[2].early

\* RunGin has returned what the statement of the shutdown sequence asks for:
\* the listener's error without Shutdown when the listener failed before any
\* signal; otherwise Shutdown was called, with nil returned when it found no
\* request in flight and an error when the grace period ran out
ReturnsAsStated ==
    proc[1].pc = "returned" =>
        IF ListenerFailedFirst
        THEN last.shutdown = "" /\ last.ret = ListenerResult(proc[2].err)
        ELSE /\ last.signal
             /\ last.shutdown \in {"nil", DeadlineExceeded}
             /\ last.shutdown = "nil" => rows = {} /\ last.ret = Ptr("")
             /\ last.shutdown = DeadlineExceeded =>
                    /\ rows # {}
                    /\ now >= last.shutdownTimeout
                    /\ last.ret = Ptr(DeadlineExceeded)

\* the statement as given: fails when the listener's result and the signal
\* are both there when the select runs, since the select may take either
C25_ShutdownSequenceAsStated ==
    /\ []ReturnsAsStated
    /\ (last.signal ~> proc[1].pc = "returned")

\* RunGin has returned what its code yields: the listener's result when the
\* select received it, and after Shutdown the timeout error or, when
\* Shutdown found no request in flight, the listener's result
ReturnsBySelect ==
    proc[1].pc = "returned" =>
        IF last.shutdown = ""
        THEN /\ proc[2].pc = "exit"
             /\ last.ret = ListenerResult(proc[2].err)
        ELSE /\ last.signal
             /\ last.shutdown \in {"nil", DeadlineExceeded}
             /\ last.shutdown = "nil" =>
                    /\ rows = {}
                    /\ proc[2].pc = "exit"
                    /\ last.ret = ListenerResult(proc[2].err)
             /\ last.shutdown = DeadlineExceeded =>
                    /\ rows # {}
                    /\ now >= last.shutdownTimeout
                    /\ last.ret = Ptr(DeadlineExceeded)

\* C25: when the select receives the listener's result, RunGin returns it
\* (the error, nil for ErrServerClosed) without calling Shutdown; when the
\* select takes the signal, RunGin calls Shutdown with the grace period and
\* returns the timeout error when the period runs out with requests in
\* flight, and otherwise the listener's result: nil when the listener ended
\* with ErrServerClosed, its error when it had failed; Shutdown is never
\* called without a signal, and after a signal RunGin eventually returns
C25_ShutdownSequence ==
    /\ []ReturnsBySelect
    /\ [](last.shutdown # "" => last.signal)
    /\ (last.signal ~> proc[1].pc = "returned")

\* the listener failed before the signal, the select took the signal,
\* Shutdown returned nil and RunGin returned the listener's error
C25_Witness ==
    /\ proc[1].pc = "returned"
    /\ ListenerFailedFirst
    /\ last.signal
    /\ last.shutdown = "nil"
    /\ last.ret = Ptr(ErrListen)

\* --- C30 ----------------------------------------------------------------

\* C30: the goroutine's send on errCh always completes, also when RunGin has
\* returned after a Shutdown timeout without receiving; once Shutdown has
\* been called the goroutine gets to its send and past it; and the receive
\* after a successful Shutdown completes
C30_SendAndReceiveComplete ==
    /\ [](Len(arg) <= errChCap)
    /\ (proc[2].pc = "send" ~> proc[2].pc = "exit")
    /\ (last.shutdown # "" ~> proc[2].pc = "exit")
    /\ (proc[1].pc = "receive" ~> proc[1].pc = "returned")

\* Shutdown timed out, RunGin returned without receiving, and the goroutine
\* has sent ErrServerClosed into the buffer and exited
C30_Witness ==
    /\ last.shutdown = DeadlineExceeded
    /\ proc[1].pc = "returned"
    /\ proc[2].pc = "exit"
    /\ arg = <<ErrServerClosed>>

====
